---------------------------- MODULE Spec2Model ----------------------------
(***************************************************************************)
(* A model of the Shelby / NanoClaw host: the iMessage channel             *)
(* (src/src/channels/imessage.ts), the module-level iMessage integration    *)
(* and its IPC handlers (src/unnamed/part_002, part_001,                    *)
(* src/apply-imessage-integration.cjs), the delivery path into running      *)
(* sessions (part_001) and the heartbeat scheduler                          *)
(* (src/src/heartbeat-scheduler.ts).                                        *)
(***************************************************************************)
EXTENDS Integers, Sequences, FiniteSets, TLC

VARIABLES
    \* ---- Apple Messages database and the host's own store (db.ts) ----
    messageDb,          \* chat.db rows with service = 'iMessage'; ROWID = index
    pendingApprovals,   \* table pending_imessage_approvals: chat_jid -> contact_info
    blockedContacts,    \* table blocked_imessage_contacts: set of chat_jid
    registeredGroups,   \* registry: chat_jid -> RegisteredGroup
    storedMessages,     \* table messages (storeMessageDirect)
    chatMetadata,       \* table chats (storeChatMetadata)
    \* ---- IMessageChannel (src/src/channels/imessage.ts) ----
    lastProcessedRowId, \* IMessageChannel.lastProcessedRowId
    connected,          \* IMessageChannel.connected
    pollingInterval,    \* IMessageChannel.pollingInterval (0 = null)
    timers,             \* setInterval handles that are armed
    polls,              \* pollMessages() invocations in flight
    ops,                \* approveIMessageContact / denyIMessageContact calls in flight
    \* ---- observations of the callbacks and the logger ----
    forwarded,          \* opts.onMessage calls, in call order, the ones that threw too
    approvalRequests,   \* opts.onApprovalRequest / notifyPendingApproval calls per chat
    pendingAdds,        \* pending records that addPendingApproval wrote, per chat
    ignoredBlocked,     \* rows logged as 'Message from blocked contact, ignoring'
    \* ---- module-level iMessage integration (src/imessage.ts) and IPC ----
    modLastProcessedRowId, \* lastProcessedRowId of the module
    modPollingInterval,    \* pollingInterval of the module (0 = null)
    modTimers,             \* setInterval handles the module has armed
    jobs,                  \* approve / deny promises started by the IPC handler
    ipcDecisions,          \* what the IPC handler decided for the tasks of one type
                           \* from one source (those of the first task handled)
    \* ---- message delivery into sessions (index.ts, GroupQueue) ----
    unseen,             \* per chat: stored messages after lastAgentTimestamp,
                        \* each one as "does it match TRIGGER_PATTERN"
    sessions,           \* live sessions (containers): records [chat, slot, phase]
    queueState,         \* GroupQueue: per chat active / pendingMessages
    waitingGroups,      \* GroupQueue: chats waiting for a free slot
    activeIdleTimers,   \* per chat: <<deadline>> of the registered idle timer, or <<>>
    clock,              \* the timers' clock (ms)
    lastInbound,        \* what the last onMessage call did (<<>> before the first)
    \* ---- heartbeat scheduler (src/src/heartbeat-scheduler.ts) ----
    hbInput,            \* the response handed to isHeartbeatOk and its maxChars
    hbVerdict,          \* what isHeartbeatOk returned for it
    hbConfigs,          \* per group folder: heartbeat-config.json
    hbNow,              \* Date.now() while the heartbeats are initialised (ms)
    hbReturned,         \* per group folder: what initializeHeartbeat returned
    tasks,              \* table scheduled_tasks: id -> task
    \* ---- the host process: main() and its shutdown handler (index.ts) ----
    handlers,           \* shutdown(signal) invocations: where each one stands
    telegramPolling,    \* the Telegram bot polls
    shuttingDown,       \* GroupQueue: shutdown was requested
    graceDeadline,      \* <<time>> at which the grace period ends, or <<>>
    exited,             \* process.exit was called
    hostLog,            \* what the shutdown handlers did, in order
    \* ---- file watchers (collaboration-watcher.ts, file-watcher.ts) ----
    changeEvents,       \* 'change' events emitted, each with the file it is about
    \* ---- history of the cursors ----
    rowsAtConnect,      \* MAX(ROWID) of chat.db when connect() last ran
    completedRows,      \* rows whose processMessage returned to pollMessages
    modRowsAtConnect,   \* MAX(ROWID) of chat.db when connectIMessage() last ran
    \* ---- configuration read from the environment (config.ts) ----
    processEnv,         \* process.env.MAX_CONCURRENT_CONTAINERS, as text
    maxConcurrent,      \* <<>> before config.ts is loaded, then <<the cap>>
    \* ---- what the IMessageChannel was constructed with ----
    opts                \* IMessageChannelOpts: [onApprovalRequest |-> supplied or not]

dbVars      == <<messageDb, pendingApprovals, blockedContacts, registeredGroups,
                 storedMessages, chatMetadata>>
channelVars == <<lastProcessedRowId, connected, pollingInterval, timers, polls, ops>>
obsVars     == <<forwarded, approvalRequests, pendingAdds, ignoredBlocked>>
modVars     == <<modLastProcessedRowId, modPollingInterval, modTimers, jobs, ipcDecisions>>
queueVars   == <<unseen, sessions, queueState, waitingGroups, activeIdleTimers, clock,
                 lastInbound>>
hbVars      == <<hbInput, hbVerdict, hbConfigs, hbNow, hbReturned, tasks>>
hostVars    == <<handlers, telegramPolling, shuttingDown, graceDeadline, exited,
                 hostLog>>
watchVars   == <<changeEvents>>
envVars     == <<processEnv, maxConcurrent>>
optsVars    == <<opts>>
histVars    == <<rowsAtConnect, completedRows, modRowsAtConnect>>
vars        == <<dbVars, channelVars, obsVars, modVars, queueVars, hbVars,
                 hostVars, watchVars, envVars, optsVars, histVars>>

---------------------------------------------------------------------------
\* Bounds of the model.
MaxRows   == 2      \* rows ever written to chat.db
MaxForwarded == 2   \* onMessage calls after which no further poll is started
MaxPolls  == 2      \* pollMessages() invocations in flight at once
MaxOps    == 2      \* approve / deny calls in flight at once
MaxSends  == 1      \* sendMessage calls of the host in flight at once
MaxTimers == 2      \* setInterval handles ever armed at once
MaxJobs   == 1      \* approve / deny promises of the IPC handler in flight
MaxClock  == 0      \* Date.now() reads a value in 0..MaxClock

\* Contact identifiers as character sequences (handle.id / chat_identifier).
ContactIds == { <<"a", ".", "b">>, <<"a", "-", "b">> }

\* config.ts
MAIN_GROUP_FOLDER == "main"

PollIds  == 1..MaxPolls
OpIds    == 1..MaxOps
TimerIds == 1..MaxTimers
Times    == 0..MaxClock

---------------------------------------------------------------------------
\* Helpers of the channel and of db.ts.

\* normalizeChatGuid: `imsg:${contactId}`
normalizeChatGuid(contactId) == <<"imsg:">> \o contactId

ChatJids == { normalizeChatGuid(c) : c \in ContactIds }

\* The chat of the main user, registered statically with MAIN_GROUP_FOLDER.
MainJid == <<"tg:", "m">>

\* jid.replace('imsg:', '')
stripImsg(jid) == IF Len(jid) > 0 /\ Head(jid) = "imsg:" THEN Tail(jid) ELSE jid

AlnumChars == {"a", "b", "m"}

\* str.replace(/[^a-zA-Z0-9]/g, '-')
sanitize(s) == [i \in 1..Len(s) |-> IF s[i] \in AlnumChars THEN s[i] ELSE "-"]

isContactBlockedNever(chatJid) == FALSE
\* isContactBlocked: a row of blocked_imessage_contacts exists
isContactBlocked(chatJid) == chatJid \in blockedContacts

getPendingApprovalNever(tbl, chatJid) == FALSE
\* getPendingApproval: truthiness of the row of pending_imessage_approvals
getPendingApproval(tbl, chatJid) == chatJid \in DOMAIN tbl

\* INSERT OR REPLACE INTO pending_imessage_approvals
addPendingApproval(tbl, chatJid, contactInfo) ==
    [j \in DOMAIN tbl \cup {chatJid} |-> IF j = chatJid THEN contactInfo ELSE tbl[j]]

\* DELETE FROM pending_imessage_approvals WHERE chat_jid = ?
removePendingApproval(tbl, chatJid) ==
    [j \in DOMAIN tbl \ {chatJid} |-> tbl[j]]

\* INSERT OR REPLACE INTO blocked_imessage_contacts
addBlockedContact(tbl, chatJid) == tbl \cup {chatJid}

isRegisteredAlways(groups, chatJid) == TRUE
\* !!registeredGroups[chatJid]
isRegistered(groups, chatJid) == chatJid \in DOMAIN groups

\* opts.registerGroup(jid, group): registeredGroups[jid] = group
registerGroup(groups, jid, group) ==
    [j \in DOMAIN groups \cup {jid} |-> IF j = jid THEN group ELSE groups[j]]

Bump(f, k) == [f EXCEPT ![k] = @ + 1]

---------------------------------------------------------------------------
\* Event-loop discipline: the continuation of `await this.processMessage(msg)`
\* is a promise job; timer callbacks and calls from other tasks run only when
\* no such job is queued.
FreePoll == { p \in PollIds : polls[p].pc = "free" }
FreeOp   == { o \in OpIds : ops[o].pc = "free" }
NoJobQueued == \A p \in PollIds : polls[p].pc \notin {"ready", "threw"}

IdlePoll == [pc |-> "free", rows |-> <<>>, idx |-> 0]
IdleOp   == [pc |-> "free", chat |-> <<>>, info |-> <<>>]

---------------------------------------------------------------------------
\* Environment: the Messages app writes a row to chat.db.
ArriveUpTo(limit, c, fromMe, text) ==
    /\ Len(messageDb) < limit
    /\ messageDb' = Append(messageDb, [chat_identifier |-> c, is_from_me |-> fromMe,
                                       text |-> text])
    /\ UNCHANGED <<pendingApprovals, blockedContacts, registeredGroups,
                   storedMessages, chatMetadata>>
    /\ UNCHANGED <<channelVars, obsVars>>
    /\ UNCHANGED <<modVars, queueVars, hbVars, hostVars, watchVars, envVars, optsVars, histVars>>

\* Up to MaxRows rows.
Arrive(c, fromMe, text) == ArriveUpTo(MaxRows, c, fromMe, text)

---------------------------------------------------------------------------
\* IMessageChannel.connect(): read MAX(ROWID), arm the polling timer.
connect ==
    /\ NoJobQueued
    /\ \E t \in TimerIds :
         /\ t \notin timers
         /\ \A u \in TimerIds : u < t => u \in timers
         /\ timers' = timers \cup {t}
         /\ pollingInterval' = t
    /\ lastProcessedRowId' = Len(messageDb)
    /\ rowsAtConnect' = Len(messageDb)
    /\ connected' = TRUE
    /\ UNCHANGED <<dbVars, polls, ops, obsVars>>
    /\ UNCHANGED <<completedRows, modRowsAtConnect>>
    /\ UNCHANGED <<modVars, queueVars, hbVars, hostVars, watchVars, envVars, optsVars>>

\* IMessageChannel.disconnect(): clear the timer the field refers to.
disconnect ==
    /\ NoJobQueued
    /\ timers' = IF pollingInterval # 0 THEN timers \ {pollingInterval} ELSE timers
    /\ pollingInterval' = 0
    /\ connected' = FALSE
    /\ UNCHANGED <<dbVars, lastProcessedRowId, polls, ops, obsVars>>
    /\ UNCHANGED <<modVars, queueVars, hbVars, hostVars, watchVars, envVars, optsVars, histVars>>

\* The rows the query of pollMessages returns: ROWID > ? ORDER BY ROWID ASC.
newRows(last) ==
    LET n == Len(messageDb)
    IN  IF last >= n THEN <<>> ELSE [i \in 1..(n - last) |-> last + i]

\* The synchronous calls of processMessage that write or call out; each may
\* throw (the database is locked, the host's callback fails).
NoFault == "none"
Faults == {"storeChatMetadata", "addPendingApproval", "storeMessageDirect", "onMessage"}

\* IMessageChannel.processMessage(msg), up to its return, to the await of
\* opts.onApprovalRequest or to the call that throws, run by poll p on
\* rows[idx].  What the calls before the throwing one wrote stays written.
processMessage(p, rows, idx, fault) ==
    LET rid       == rows[idx]
        msg       == messageDb[rid]
        chatId    == msg.chat_identifier
        chatJid   == normalizeChatGuid(chatId)
        skip      == msg.is_from_me
        blocked   == ~skip /\ isContactBlocked(chatJid)
        known     == isRegistered(registeredGroups, chatJid)
        newContact == ~skip /\ ~blocked /\ ~known /\ ~getPendingApproval(pendingApprovals, chatJid)
        forward   == ~skip /\ ~blocked /\ known
        \* `if (this.opts.onApprovalRequest) await this.opts.onApprovalRequest(...)`
        request   == newContact /\ opts.onApprovalRequest /\ fault # "addPendingApproval"
        \* the call that throws is reached
        thrown    == \/ fault = "storeChatMetadata" /\ ~skip
                     \/ fault = "addPendingApproval" /\ newContact
                     \/ fault \in {"storeMessageDirect", "onMessage"} /\ forward
        metadata  == ~skip /\ fault # "storeChatMetadata"
        added     == newContact /\ fault \notin {"storeChatMetadata", "addPendingApproval"}
        stored    == forward /\ fault \notin {"storeChatMetadata", "storeMessageDirect"}
        \* opts.onMessage is called, whether it returns or throws
        called    == stored
    IN  /\ chatMetadata' = IF metadata THEN chatMetadata \cup {chatJid} ELSE chatMetadata
        /\ ignoredBlocked' = IF blocked /\ ~thrown THEN ignoredBlocked \cup {rid}
                                                  ELSE ignoredBlocked
        /\ pendingApprovals' = IF added
                                 THEN addPendingApproval(pendingApprovals, chatJid, chatId)
                                 ELSE pendingApprovals
        /\ pendingAdds' = IF added THEN Bump(pendingAdds, chatJid) ELSE pendingAdds
        /\ approvalRequests' = IF request /\ ~thrown THEN Bump(approvalRequests, chatJid)
                                                     ELSE approvalRequests
        /\ storedMessages' = IF stored
                               THEN storedMessages \cup
                                      {[id |-> <<"row", rid>>, chat_jid |-> chatJid,
                                        is_from_me |-> FALSE, by |-> "channel"]}
                               ELSE storedMessages
        /\ forwarded' = IF called
                          THEN Append(forwarded,
                                 [row |-> rid, chat_jid |-> chatJid,
                                  is_from_me |-> msg.is_from_me,
                                  blocked |-> chatJid \in blockedContacts,
                                  registered |-> chatJid \in DOMAIN registeredGroups])
                          ELSE forwarded
        /\ polls' = [polls EXCEPT ![p] =
                       [pc |-> IF thrown THEN "threw"
                               ELSE IF request THEN "awaitApproval" ELSE "ready",
                        rows |-> rows, idx |-> idx]]

\* The polling timer fires: pollMessages() queries the new rows and starts on
\* the first one.
pollMessages(t, fault) ==
    /\ t \in timers
    /\ NoJobQueued
    /\ Len(forwarded) < MaxForwarded
    /\ FreePoll # {}
    /\ LET p    == CHOOSE q \in FreePoll : \A r \in FreePoll : q <= r
           rows == newRows(lastProcessedRowId)
       IN  IF rows = <<>>
             THEN UNCHANGED <<polls, pendingApprovals, storedMessages, chatMetadata, obsVars>>
             ELSE processMessage(p, rows, 1, fault)
    /\ UNCHANGED <<messageDb, blockedContacts, registeredGroups,
                   lastProcessedRowId, connected, pollingInterval, timers, ops>>
    /\ UNCHANGED <<modVars, queueVars, hbVars, hostVars, watchVars, envVars, optsVars, histVars>>

\* pollMessages() resumes after `await this.processMessage(msg)`: the cursor
\* moves to the row, then the next row is processed or the poll ends.
pollResume(p, fault) ==
    /\ polls[p].pc = "ready"
    /\ lastProcessedRowId' = polls[p].rows[polls[p].idx]
    /\ completedRows' = completedRows \cup {polls[p].rows[polls[p].idx]}
    /\ UNCHANGED <<rowsAtConnect, modRowsAtConnect>>
    /\ IF polls[p].idx < Len(polls[p].rows)
         THEN processMessage(p, polls[p].rows, polls[p].idx + 1, fault)
         ELSE /\ polls' = [polls EXCEPT ![p] = IdlePoll]
              /\ UNCHANGED <<pendingApprovals, storedMessages, chatMetadata, obsVars>>
    /\ UNCHANGED <<messageDb, blockedContacts, registeredGroups,
                   connected, pollingInterval, timers, ops>>
    /\ UNCHANGED <<modVars, queueVars, hbVars, hostVars, watchVars, envVars, optsVars>>

\* The rejection of `await this.processMessage(msg)` reaches the catch of
\* pollMessages, which logs it: the loop is left before the assignment to
\* lastProcessedRowId, and the poll ends.
pollCatches(p) ==
    /\ polls[p].pc = "threw"
    /\ polls' = [polls EXCEPT ![p] = IdlePoll]
    /\ UNCHANGED <<dbVars, lastProcessedRowId, connected, pollingInterval, timers,
                   ops, obsVars>>
    /\ UNCHANGED <<modVars, queueVars, hbVars, hostVars, watchVars, envVars, optsVars, histVars>>

\* The promise of opts.onApprovalRequest settles: processMessage returns, or
\* the rejection reaches the catch of pollMessages and the poll ends.
approvalRequestSettles(p, ok) ==
    /\ polls[p].pc = "awaitApproval"
    /\ polls' = [polls EXCEPT ![p] = IF ok THEN [@ EXCEPT !.pc = "ready"] ELSE IdlePoll]
    /\ UNCHANGED <<dbVars, lastProcessedRowId, connected, pollingInterval, timers,
                   ops, obsVars>>
    /\ UNCHANGED <<modVars, queueVars, hbVars, hostVars, watchVars, envVars, optsVars, histVars>>

---------------------------------------------------------------------------
\* approveIMessageContact(chatJid, channel, opts) of the channel module.

\* The folder of an isolated agent:
\* `imessage-${chatJid.replace('imsg:', '').replace(/[^a-zA-Z0-9]/g, '-')}-${timestamp}`
channelFolder(chatJid, timestamp) == <<"imessage", sanitize(stripImsg(chatJid)), timestamp>>

\* `${pending.contact_info} (iMessage)`
channelGroupName(info) == info \o <<" (iMessage)">>

\* Called: the pending row is read; the call throws without one, else it
\* awaits import('../db.js').
approveCall(chatJid) ==
    /\ NoJobQueued
    /\ FreeOp # {}
    /\ IF getPendingApproval(pendingApprovals, chatJid)
         THEN LET o == CHOOSE q \in FreeOp : \A r \in FreeOp : q <= r
              IN  ops' = [ops EXCEPT ![o] = [pc |-> "approve_import_db", chat |-> chatJid,
                                             info |-> pendingApprovals[chatJid]]]
         ELSE UNCHANGED ops
    /\ UNCHANGED <<dbVars, lastProcessedRowId, connected, pollingInterval, timers,
                   polls, obsVars>>
    /\ UNCHANGED <<modVars, queueVars, hbVars, hostVars, watchVars, envVars, optsVars, histVars>>

\* import('../db.js') resolved: Date.now() is read, the folder and the name of
\* the group are built, and import('../config.js') is awaited inside the
\* argument of registerGroup.
approveFolder(o, timestamp) ==
    /\ ops[o].pc = "approve_import_db"
    /\ ops' = [ops EXCEPT ![o] = [pc |-> "approve_import_config", chat |-> @.chat,
                                   info |-> @.info,
                                   name |-> channelGroupName(@.info),
                                   folder |-> channelFolder(@.chat, timestamp)]]
    /\ UNCHANGED <<dbVars, lastProcessedRowId, connected, pollingInterval, timers,
                   polls, obsVars>>
    /\ UNCHANGED <<modVars, queueVars, hbVars, hostVars, watchVars, envVars, optsVars, histVars>>

\* import('../config.js') resolved: registerGroup, removePendingApproval, then
\* channel.sendMessage is awaited.
approveRegister(o) ==
    /\ ops[o].pc = "approve_import_config"
    /\ registeredGroups' = registerGroup(registeredGroups, ops[o].chat,
                              [name |-> ops[o].name,
                               folder |-> ops[o].folder,
                               requiresTrigger |-> FALSE,
                               additionalMounts |-> FALSE])
    /\ pendingApprovals' = removePendingApproval(pendingApprovals, ops[o].chat)
    /\ ops' = [ops EXCEPT ![o] = [pc |-> "approve_send", chat |-> @.chat, info |-> @.info]]
    /\ UNCHANGED <<messageDb, blockedContacts, storedMessages, chatMetadata>>
    /\ UNCHANGED <<lastProcessedRowId, connected, pollingInterval, timers, polls,
                   obsVars>>
    /\ UNCHANGED <<modVars, queueVars, hbVars, hostVars, watchVars, envVars, optsVars, histVars>>

\* "Store our own message": id `${Date.now()}-outgoing`
outgoingMessage(jid, timestamp) ==
    [id |-> <<"outgoing", timestamp>>, chat_jid |-> jid, is_from_me |-> TRUE,
     by |-> "channel"]

storeOutgoingAlways(stored, jid, ok, timestamp) ==
    stored \cup {outgoingMessage(jid, timestamp)}
\* The try of IMessageChannel.sendMessage: storeMessageDirect follows the
\* awaited osascript, which throws when the send fails.
storeOutgoing(stored, jid, ok, timestamp) ==
    IF ok THEN stored \cup {outgoingMessage(jid, timestamp)} ELSE stored

\* IMessageChannel.sendMessage(jid, text) called by the host (a reply to the
\* chat): the script is built and osascript is awaited.
sendMessage(jid) ==
    /\ NoJobQueued
    /\ FreeOp # {}
    /\ Cardinality({ q \in OpIds : ops[q].pc = "send" }) < MaxSends
    /\ LET o == CHOOSE q \in FreeOp : \A r \in FreeOp : q <= r
       IN  ops' = [ops EXCEPT ![o] = [pc |-> "send", chat |-> jid, info |-> <<>>]]
    /\ UNCHANGED <<dbVars, lastProcessedRowId, connected, pollingInterval, timers,
                   polls, obsVars>>
    /\ UNCHANGED <<modVars, queueVars, hbVars, hostVars, watchVars, envVars, optsVars, histVars>>

\* IMessageChannel.sendMessage: osascript succeeded (the outgoing message is
\* stored) or failed (the error is rethrown), for the send awaited by
\* approveIMessageContact and for one the host called.
sendMessageSettles(o, ok, timestamp) ==
    /\ ops[o].pc \in {"approve_send", "send"}
    /\ storedMessages' = storeOutgoing(storedMessages, ops[o].chat, ok, timestamp)
    /\ ops' = [ops EXCEPT ![o] = IdleOp]
    /\ UNCHANGED <<messageDb, pendingApprovals, blockedContacts, registeredGroups,
                   chatMetadata>>
    /\ UNCHANGED <<lastProcessedRowId, connected, pollingInterval, timers, polls,
                   obsVars>>
    /\ UNCHANGED <<modVars, queueVars, hbVars, hostVars, watchVars, envVars, optsVars, histVars>>

\* denyIMessageContact(chatJid) of the channel module: called.
denyCall(chatJid) ==
    /\ NoJobQueued
    /\ FreeOp # {}
    /\ IF getPendingApproval(pendingApprovals, chatJid)
         THEN LET o == CHOOSE q \in FreeOp : \A r \in FreeOp : q <= r
              IN  ops' = [ops EXCEPT ![o] = [pc |-> "deny_import_db", chat |-> chatJid,
                                             info |-> pendingApprovals[chatJid]]]
         ELSE UNCHANGED ops
    /\ UNCHANGED <<dbVars, lastProcessedRowId, connected, pollingInterval, timers,
                   polls, obsVars>>
    /\ UNCHANGED <<modVars, queueVars, hbVars, hostVars, watchVars, envVars, optsVars, histVars>>

\* denyIMessageContact after import('../db.js'): block, remove the pending row.
denyBlock(o) ==
    /\ ops[o].pc = "deny_import_db"
    /\ blockedContacts' = addBlockedContact(blockedContacts, ops[o].chat)
    /\ pendingApprovals' = removePendingApproval(pendingApprovals, ops[o].chat)
    /\ ops' = [ops EXCEPT ![o] = IdleOp]
    /\ UNCHANGED <<messageDb, registeredGroups, storedMessages, chatMetadata>>
    /\ UNCHANGED <<lastProcessedRowId, connected, pollingInterval, timers, polls,
                   obsVars>>
    /\ UNCHANGED <<modVars, queueVars, hbVars, hostVars, watchVars, envVars, optsVars, histVars>>

---------------------------------------------------------------------------
\* The module-level integration (src/imessage.ts) and the IPC handlers of
\* index.ts.  A row's sender is its chat_identifier (one-to-one chats).

Max(a, b) == IF a >= b THEN a ELSE b

lowerChar(ch) == IF ch = "A" THEN "a" ELSE ch

\* contact_info.replace(/[^a-zA-Z0-9-]/g, '-').toLowerCase()
sanitizedName(info) ==
    [i \in 1..Len(info) |->
       lowerChar(IF info[i] \in AlnumChars \cup {"A", "-"} THEN info[i] ELSE "-")]

\* `imessage-${sanitizedName}-${Date.now()}`
moduleFolder(info, timestamp) == <<"imessage", sanitizedName(info), timestamp>>

\* Object.entries(getAllRegisteredGroups()).find(folder === MAIN_GROUP_FOLDER):
\* what the search can return, <<>> when no chat uses the main folder, else
\* <<jid>> for the first such chat in the order of the registry. That order
\* is the one getAllRegisteredGroups of db.ts returns the rows in; it is not
\* part of the state here, so each chat of the main folder can be the first.
mainUserChats(groups) ==
    LET mainChats == { j \in DOMAIN groups : groups[j].folder = MAIN_GROUP_FOLDER }
    IN  IF mainChats = {} THEN {<<>>} ELSE { <<j>> : j \in mainChats }

\* notifyPendingApproval: a notification message is stored for the chat that
\* uses MAIN_GROUP_FOLDER, when there is one.
notifyPendingApproval(stored, chatGuid, timestamp, mainUserChat) ==
    IF mainUserChat = <<>>
      THEN stored
      ELSE stored \cup
             {[id |-> <<"approval-notification", timestamp>>,
               chat_jid |-> mainUserChat[1],
               is_from_me |-> FALSE, by |-> "system"]}

\* handleIncomingMessage(message) on the state st threaded through one poll.
handleIncomingMessage(st, rid, timestamp, mainUserChat) ==
    LET msg      == messageDb[rid]
        chatGuid == normalizeChatGuid(msg.chat_identifier)
        st1      == [st EXCEPT !.last = Max(st.last, rid)]
        st2      == [st1 EXCEPT !.meta = @ \cup {chatGuid}]
    IN  IF msg.is_from_me THEN st1
        ELSE IF isContactBlocked(chatGuid)
          THEN [st2 EXCEPT !.ignored = @ \cup {rid}]
        ELSE IF ~isRegistered(registeredGroups, chatGuid)
          THEN IF ~getPendingApproval(st2.pending, chatGuid)
                 THEN [st2 EXCEPT
                         !.pending = addPendingApproval(@, chatGuid, msg.chat_identifier),
                         !.adds = Bump(@, chatGuid),
                         !.requests = Bump(@, chatGuid),
                         !.stored = notifyPendingApproval(@, chatGuid, timestamp,
                                                          mainUserChat)]
                 ELSE st2
        ELSE IF msg.text = "" THEN st2
        ELSE [st2 EXCEPT !.stored = @ \cup
                 {[id |-> <<"row", rid>>, chat_jid |-> chatGuid, is_from_me |-> FALSE,
                   by |-> "module"]}]

RECURSIVE handleAll(_, _, _, _, _)
\* for (const message of messages) handleIncomingMessage(message)
handleAll(st, rows, idx, timestamp, mainUserChat) ==
    IF idx > Len(rows) THEN st
    ELSE handleAll(handleIncomingMessage(st, rows[idx], timestamp, mainUserChat),
                   rows, idx + 1, timestamp, mainUserChat)

\* initializeLastProcessedRowId(): the cursor becomes MAX(ROWID) when the
\* query returns one; when chat.db cannot be opened or read (dbOk is false)
\* the error is logged and the cursor stays as it is.
initializeLastProcessedRowId(last, dbOk) ==
    IF dbOk /\ Len(messageDb) # 0 THEN Len(messageDb) ELSE last

\* connectIMessage(): initializeLastProcessedRowId, then setInterval. A call
\* while a timer is armed arms another one and overwrites pollingInterval.
connectIMessage(dbOk) ==
    /\ \E t \in TimerIds :
         /\ t \notin modTimers
         /\ \A u \in TimerIds : u < t => u \in modTimers
         /\ modTimers' = modTimers \cup {t}
         /\ modPollingInterval' = t
    /\ modLastProcessedRowId' = initializeLastProcessedRowId(modLastProcessedRowId, dbOk)
    /\ modRowsAtConnect' = Len(messageDb)
    /\ UNCHANGED <<jobs, ipcDecisions>>
    /\ UNCHANGED <<rowsAtConnect, completedRows>>
    /\ UNCHANGED <<dbVars, channelVars, obsVars, queueVars, hbVars, hostVars, watchVars, envVars, optsVars>>

timersAfterStopKeepsPolling(interval, armed) == armed
\* `if (pollingInterval) { clearInterval(pollingInterval); ... }`: the
\* timers still armed afterwards
timersAfterStop(interval, armed) == IF interval # 0 THEN armed \ {interval} ELSE armed

\* stopIMessage()
stopIMessage ==
    /\ modTimers' = timersAfterStop(modPollingInterval, modTimers)
    /\ modPollingInterval' = 0
    /\ UNCHANGED <<modLastProcessedRowId, jobs, ipcDecisions>>
    /\ UNCHANGED <<dbVars, channelVars, obsVars, queueVars, hbVars, hostVars, watchVars, envVars, optsVars, histVars>>

\* The module's timer fires: pollMessages() runs to completion.
pollMessagesMod(t, timestamp) ==
    /\ t \in modTimers
    /\ \E mainUserChat \in mainUserChats(registeredGroups) :
       LET rows == newRows(modLastProcessedRowId)
           st0  == [last |-> modLastProcessedRowId, pending |-> pendingApprovals,
                    stored |-> storedMessages, meta |-> chatMetadata,
                    adds |-> pendingAdds, requests |-> approvalRequests,
                    ignored |-> ignoredBlocked]
           st   == handleAll(st0, rows, 1, timestamp, mainUserChat)
       IN  /\ modLastProcessedRowId' = st.last
           /\ pendingApprovals' = st.pending
           /\ storedMessages' = st.stored
           /\ chatMetadata' = st.meta
           /\ pendingAdds' = st.adds
           /\ approvalRequests' = st.requests
           /\ ignoredBlocked' = st.ignored
    /\ UNCHANGED <<messageDb, blockedContacts, registeredGroups, forwarded>>
    /\ UNCHANGED <<modPollingInterval, modTimers, jobs, ipcDecisions>>
    /\ UNCHANGED <<channelVars, queueVars, hbVars, hostVars, watchVars, envVars, optsVars, histVars>>

IpcTypes == {"approve_imessage_contact", "deny_imessage_contact",
             "list_pending_imessage_approvals", "list_blocked_imessage_contacts"}

NoJid == <<>>

\* The fields of a task file: chatJid (or none), useMainAgent, and a group
\* folder the writer of the file puts into it.
Payloads == [chatJid : ChatJids \cup {NoJid}, useMainAgent : BOOLEAN,
             groupFolder : {MAIN_GROUP_FOLDER, "other"}]

ipcAuthorizedDenyOpen(type, isMain, data) == isMain \/ type = "deny_imessage_contact"
ipcAuthorizedTrustPayload(type, isMain, data) ==
    isMain \/ data.groupFolder = MAIN_GROUP_FOLDER
\* `if (!isMain) { logger.warn(...); break; }` of the four cases
ipcAuthorized(type, isMain, data) == isMain

\* The third argument the approve case passes to approveIMessageContact: the
\* handler of the integration guide passes `data.useMainAgent === true`, the
\* one apply-imessage-integration.cjs installs passes none (the default is
\* false).
useMainAgentArguments(type, data) ==
    {type = "approve_imessage_contact" /\ data.useMainAgent, FALSE}

\* processTaskIpc(data, sourceGroup, isMain) for the contact-management task
\* types: the approve / deny promise is started, the lists are only read.
processTaskIpc(type, isMain, data) ==
    LET ok    == ipcAuthorized(type, isMain, data)
        entry == [type |-> type, isMain |-> isMain, groupFolder |-> data.groupFolder,
                  authorized |-> ok]
        start == /\ ok
                 /\ type \in {"approve_imessage_contact", "deny_imessage_contact"}
                 /\ data.chatJid # NoJid
        observed == \A e \in ipcDecisions : e.type = type /\ e.isMain = isMain
    IN  /\ \E useMainAgent \in useMainAgentArguments(type, data) :
             LET job == [kind |-> type, chatJid |-> data.chatJid,
                         useMainAgent |-> useMainAgent]
             IN  /\ start => (job \in jobs \/ Cardinality(jobs) < MaxJobs)
                 /\ jobs' = IF start THEN jobs \cup {job} ELSE jobs
        /\ ipcDecisions' = IF observed THEN ipcDecisions \cup {entry} ELSE ipcDecisions
        /\ UNCHANGED <<modLastProcessedRowId, modPollingInterval, modTimers>>
        /\ UNCHANGED <<dbVars, channelVars, obsVars, queueVars, hbVars, hostVars, watchVars, envVars, optsVars, histVars>>

\* approveIMessageContact(chatGuid, registerGroup, useMainAgent) of the module,
\* after its import('./db.js').
runApprove(job, timestamp) ==
    /\ job \in jobs
    /\ job.kind = "approve_imessage_contact"
    /\ jobs' = jobs \ {job}
    /\ IF getPendingApproval(pendingApprovals, job.chatJid)
          /\ ~isRegistered(registeredGroups, job.chatJid)
         THEN /\ registeredGroups' =
                   registerGroup(registeredGroups, job.chatJid,
                     [name |-> pendingApprovals[job.chatJid],
                      folder |-> IF job.useMainAgent
                                   THEN MAIN_GROUP_FOLDER
                                   ELSE moduleFolder(pendingApprovals[job.chatJid], timestamp),
                      requiresTrigger |-> FALSE,
                      additionalMounts |-> ~job.useMainAgent])
              /\ pendingApprovals' = removePendingApproval(pendingApprovals, job.chatJid)
         ELSE UNCHANGED <<registeredGroups, pendingApprovals>>
    /\ UNCHANGED <<messageDb, blockedContacts, storedMessages, chatMetadata>>
    /\ UNCHANGED <<modLastProcessedRowId, modPollingInterval, modTimers, ipcDecisions>>
    /\ UNCHANGED <<channelVars, obsVars, queueVars, hbVars, hostVars, watchVars, envVars, optsVars, histVars>>

\* A deny that blocks the chat without looking for its pending record.
runDenyUnchecked(job) ==
    /\ job \in jobs
    /\ job.kind = "deny_imessage_contact"
    /\ jobs' = jobs \ {job}
    /\ blockedContacts' = addBlockedContact(blockedContacts, job.chatJid)
    /\ pendingApprovals' = removePendingApproval(pendingApprovals, job.chatJid)
    /\ UNCHANGED <<messageDb, registeredGroups, storedMessages, chatMetadata>>
    /\ UNCHANGED <<modLastProcessedRowId, modPollingInterval, modTimers, ipcDecisions>>
    /\ UNCHANGED <<channelVars, obsVars, queueVars, hbVars, hostVars, watchVars, envVars, optsVars, histVars>>

\* denyIMessageContact(chatGuid, reason) of the module, after its import.
runDeny(job) ==
    /\ job \in jobs
    /\ job.kind = "deny_imessage_contact"
    /\ jobs' = jobs \ {job}
    /\ IF getPendingApproval(pendingApprovals, job.chatJid)
         THEN /\ blockedContacts' = addBlockedContact(blockedContacts, job.chatJid)
              /\ pendingApprovals' = removePendingApproval(pendingApprovals, job.chatJid)
         ELSE UNCHANGED <<blockedContacts, pendingApprovals>>
    /\ UNCHANGED <<messageDb, registeredGroups, storedMessages, chatMetadata>>
    /\ UNCHANGED <<modLastProcessedRowId, modPollingInterval, modTimers, ipcDecisions>>
    /\ UNCHANGED <<channelVars, obsVars, queueVars, hbVars, hostVars, watchVars, envVars, optsVars, histVars>>

---------------------------------------------------------------------------
\* Delivery of inbound messages into sessions: the onMessage callback and
\* deliverToActiveContainer of index.ts (src/unnamed/part_001), over the
\* GroupQueue and the session lifecycle of the design.

\* The chat of a group that needs the trigger.
FamilyJid == <<"tg:", "f">>
FamilyGroup == [name |-> <<"f">>, folder |-> "family",
                requiresTrigger |-> TRUE, additionalMounts |-> FALSE]
QueueChats == {MainJid, FamilyJid}

\* config.ts: IDLE_TIMEOUT (ms), and the cap on live containers, which
\* config.ts computes from the environment when it is loaded (5 when the
\* variable is not set).
IDLE_TIMEOUT == 300000
MAX_CONCURRENT_CONTAINERS == maxConcurrent[1]
MaxUnseen == 2          \* stored messages of a chat after its cursor
MaxClockSteps == 2      \* steps of half an idle window the clock makes

activeCount(q) == Cardinality({ c \in QueueChats : q[c].active })

SessionsOf(chat) == { x \in sessions : x.chat = chat }

runningSession(chat) == \E x \in sessions : x.chat = chat /\ x.phase = "running"

\* GroupQueue: state.active of the group
groupIsActive(q, chatJid) == q[chatJid].active

\* GroupQueue.sendMessage(chatJid, prompt): writes into the mailbox of the
\* group's running session; false when there is none or the write fails.
queueSendMessage(chatJid, writeOk) ==
    groupIsActive(queueState, chatJid) /\ runningSession(chatJid) /\ writeOk

\* The lowest free session slot.
freeSlot(ss) == CHOOSE k \in 1..Cardinality(ss) + 1 : \A x \in ss : x.slot # k

\* Variant: the group's own live session is not looked at, only the cap.
enqueueIgnoresActive(st, chatJid) ==
    IF activeCount(st.queue) >= MAX_CONCURRENT_CONTAINERS
      THEN [st EXCEPT !.queue[chatJid].pendingMessages = TRUE,
                      !.waiting = IF \E i \in 1..Len(@) : @[i] = chatJid
                                    THEN @ ELSE Append(@, chatJid)]
    ELSE [st EXCEPT !.queue[chatJid] = [active |-> TRUE, pendingMessages |-> FALSE],
                    !.sessions = @ \cup {[chat |-> chatJid, slot |-> freeSlot(@),
                                          phase |-> "starting"]}]
\* GroupQueue.enqueueMessageCheck(chatJid): a group with a live session only
\* notes the pending messages; at the cap the group waits; else a session is
\* spawned for it.  st is [queue, waiting, sessions].
enqueueMessageCheck(st, chatJid) ==
    IF groupIsActive(st.queue, chatJid)
      THEN [st EXCEPT !.queue[chatJid].pendingMessages = TRUE]
    ELSE IF activeCount(st.queue) >= MAX_CONCURRENT_CONTAINERS
      THEN [st EXCEPT !.queue[chatJid].pendingMessages = TRUE,
                      !.waiting = IF \E i \in 1..Len(@) : @[i] = chatJid
                                    THEN @ ELSE Append(@, chatJid)]
    ELSE [st EXCEPT !.queue[chatJid] = [active |-> TRUE, pendingMessages |-> FALSE],
                    !.sessions = @ \cup {[chat |-> chatJid, slot |-> freeSlot(@),
                                          phase |-> "starting"]}]

\* The trigger requirement of deliverToActiveContainer: a non-main group
\* whose requiresTrigger is not false needs a message that matches.
triggerSatisfied(group, missedMessages) ==
    \/ group.folder = MAIN_GROUP_FOLDER
    \/ group.requiresTrigger = FALSE
    \/ \E i \in 1..Len(missedMessages) : missedMessages[i]

\* deliverToActiveContainer reaches queue.sendMessage: the group is
\* registered, there are messages after the cursor, the trigger is satisfied.
sendAttempted(chatJid, missedMessages) ==
    /\ chatJid \in DOMAIN registeredGroups
    /\ Len(missedMessages) # 0
    /\ triggerSatisfied(registeredGroups[chatJid], missedMessages)

\* deliverToActiveContainer(chatJid): what it returns
deliverToActiveContainer(chatJid, missedMessages, writeOk) ==
    sendAttempted(chatJid, missedMessages) /\ queueSendMessage(chatJid, writeOk)

resetIdleTimerNever(idleTimers, chatJid, delivered, now) == idleTimers
\* `if (delivered) { ...; const timer = activeIdleTimers.get(chatJid);
\* if (timer) timer.reset(); }`: reset re-arms the timer for IDLE_TIMEOUT.
resetIdleTimer(idleTimers, chatJid, delivered, now) ==
    IF delivered /\ idleTimers[chatJid] # <<>>
      THEN [idleTimers EXCEPT ![chatJid] = <<now + IDLE_TIMEOUT>>]
      ELSE idleTimers

fallbackAlways(delivered) == TRUE
\* onMessage: `if (deliverToActiveContainer(chatJid)) return;` and then
\* queue.enqueueMessageCheck(chatJid)
fallbackToEnqueue(delivered) == ~delivered

\* getMessagesSince(chatJid, sinceTimestamp, ASSISTANT_NAME) of db.ts, after
\* the message msg was stored: the stored messages of the chat after the
\* cursor, with msg among them when it is listed, that is, when its timestamp
\* is after the cursor and it is not a message the assistant wrote.
getMessagesSince(stored, msg, listed) ==
    IF listed THEN Append(stored, msg) ELSE stored

\* A message of a registered chat was stored and the channel calls
\* onMessage(chatJid, msg).
onMessage(chatJid, hasTrigger, listed, writeOk) ==
    /\ listed => Len(unseen[chatJid]) < MaxUnseen
    /\ LET missedMessages == getMessagesSince(unseen[chatJid], hasTrigger, listed)
           attempted == sendAttempted(chatJid, missedMessages)
           delivered == deliverToActiveContainer(chatJid, missedMessages, writeOk)
           enqueue   == fallbackToEnqueue(delivered)
           st0       == [queue |-> queueState, waiting |-> waitingGroups,
                         sessions |-> sessions]
           st        == IF enqueue THEN enqueueMessageCheck(st0, chatJid) ELSE st0
       IN  /\ unseen' = [unseen EXCEPT ![chatJid] = IF delivered THEN <<>> ELSE missedMessages]
           /\ activeIdleTimers' = resetIdleTimer(activeIdleTimers, chatJid, delivered, clock)
           /\ queueState' = st.queue
           /\ waitingGroups' = st.waiting
           /\ sessions' = st.sessions
           /\ lastInbound' = <<[chat |-> chatJid, live |-> runningSession(chatJid),
                                missed |-> Len(missedMessages),
                                trigger |-> \E i \in 1..Len(missedMessages) :
                                               missedMessages[i],
                                written |-> writeOk,
                                sendCalled |-> attempted, delivered |-> delivered,
                                enqueued |-> enqueue, thinking |-> delivered]>>
    /\ UNCHANGED clock
    /\ UNCHANGED <<dbVars, channelVars, obsVars, modVars, hbVars, hostVars, watchVars, envVars, optsVars, histVars>>

\* Starting -> Running: processGroupMessages has taken the messages after the
\* cursor, the container runs, the idle timer is armed and registered.
sessionRuns(chatJid) ==
    /\ \E x \in sessions :
         /\ x.chat = chatJid /\ x.phase = "starting"
         /\ sessions' = (sessions \ {x}) \cup {[x EXCEPT !.phase = "running"]}
    /\ unseen' = [unseen EXCEPT ![chatJid] = <<>>]
    /\ activeIdleTimers' = [activeIdleTimers EXCEPT ![chatJid] = <<clock + IDLE_TIMEOUT>>]
    /\ UNCHANGED <<queueState, waitingGroups, clock, lastInbound>>
    /\ UNCHANGED <<dbVars, channelVars, obsVars, modVars, hbVars, hostVars, watchVars, envVars, optsVars, histVars>>

\* An output line of the session is observed: the idle timer starts again.
sessionOutput(chatJid) ==
    /\ runningSession(chatJid)
    /\ activeIdleTimers[chatJid] # <<>>
    /\ activeIdleTimers[chatJid][1] # clock + IDLE_TIMEOUT
    /\ activeIdleTimers' = [activeIdleTimers EXCEPT ![chatJid] = <<clock + IDLE_TIMEOUT>>]
    /\ UNCHANGED <<unseen, sessions, queueState, waitingGroups, clock, lastInbound>>
    /\ UNCHANGED <<dbVars, channelVars, obsVars, modVars, hbVars, hostVars, watchVars, envVars, optsVars, histVars>>

RECURSIVE drainWaiting(_)
\* GroupQueue: admit the groups that wait while there is a free slot.
drainWaiting(st) ==
    IF st.waiting = <<>> \/ activeCount(st.queue) >= MAX_CONCURRENT_CONTAINERS THEN st
    ELSE LET next == Head(st.waiting)
             st1  == [st EXCEPT !.waiting = Tail(@)]
         IN  drainWaiting(IF st1.queue[next].pendingMessages
                            THEN enqueueMessageCheck(st1, next)
                            ELSE st1)

\* Draining -> Terminated: timers cleared, the session entry removed, the
\* queue notified: the group's pending messages get a new session, else a
\* waiting group is admitted.
sessionEnds(chatJid) ==
    LET st0 == [queue |-> [queueState EXCEPT ![chatJid].active = FALSE],
                waiting |-> waitingGroups,
                sessions |-> sessions \ SessionsOf(chatJid)]
        st1 == IF queueState[chatJid].pendingMessages
                 THEN enqueueMessageCheck(st0, chatJid) ELSE st0
        st  == drainWaiting(st1)
    IN  /\ queueState' = st.queue
        /\ waitingGroups' = st.waiting
        /\ sessions' = st.sessions
        /\ activeIdleTimers' = [activeIdleTimers EXCEPT ![chatJid] = <<>>]
        /\ UNCHANGED <<unseen, clock, lastInbound>>
        /\ UNCHANGED <<dbVars, channelVars, obsVars, modVars, hbVars, hostVars, watchVars, envVars, optsVars, histVars>>

\* The idle timer of a running session fires.
idleTimeout(chatJid) ==
    /\ runningSession(chatJid)
    /\ activeIdleTimers[chatJid] # <<>>
    /\ activeIdleTimers[chatJid][1] <= clock
    /\ sessionEnds(chatJid)

\* The container of a session exits, or the session fails while starting.
sessionExits(chatJid) ==
    /\ SessionsOf(chatJid) # {}
    /\ sessionEnds(chatJid)

\* Time passes, half an idle window per step.
tick ==
    /\ clock < MaxClockSteps * (IDLE_TIMEOUT \div 2)
    /\ \A c \in QueueChats :
         activeIdleTimers[c] # <<>> => activeIdleTimers[c][1] > clock
    /\ clock' = clock + IDLE_TIMEOUT \div 2
    /\ UNCHANGED <<unseen, sessions, queueState, waitingGroups, activeIdleTimers, lastInbound>>
    /\ UNCHANGED <<dbVars, channelVars, obsVars, modVars, hbVars, hostVars, watchVars, envVars, optsVars, histVars>>

---------------------------------------------------------------------------
\* main() and its shutdown handler (index.ts), over the GroupQueue of the
\* design.  process.on('SIGTERM' / 'SIGINT') is registered in the same
\* synchronous block of main() that calls connectIMessage(), so a signal is
\* handled only once the module polls.

\* `await queue.shutdown(10000)`
GRACE_PERIOD == 10000
MaxSignals == 2         \* SIGTERM / SIGINT deliveries the host sees

Signals == {"SIGTERM", "SIGINT"}

\* connectTelegram(TELEGRAM_BOT_TOKEN), when Telegram is configured: the bot
\* starts to poll.
connectTelegram ==
    /\ modPollingInterval # 0
    /\ ~telegramPolling
    /\ telegramPolling' = TRUE
    /\ UNCHANGED <<handlers, shuttingDown, graceDeadline, exited, hostLog>>
    /\ UNCHANGED <<dbVars, channelVars, obsVars, modVars, queueVars, hbVars, watchVars, envVars, optsVars, histVars>>

queueShutdownAgain(q, gracePeriodMs, now) ==
    [shuttingDown |-> TRUE, deadline |-> <<now + gracePeriodMs>>,
     sessions |-> { [x EXCEPT !.phase = "draining"] : x \in q.sessions }]
\* GroupQueue.shutdown(gracePeriodMs): no enqueue is accepted any more and
\* every live session is asked to drain, with the grace period running from
\* now; a call while the queue shuts down already changes nothing.  q is
\* [shuttingDown, deadline, sessions].
queueShutdown(q, gracePeriodMs, now) ==
    IF q.shuttingDown THEN q
    ELSE [shuttingDown |-> TRUE, deadline |-> <<now + gracePeriodMs>>,
          sessions |-> { [x EXCEPT !.phase = "draining"] : x \in q.sessions }]

\* The promise of queue.shutdown resolves: no session is live any more.
drainCompleted == shuttingDown /\ sessions = {}

exitAllowedAtOnce == TRUE
\* `await queue.shutdown(10000); process.exit(0);`: exit waits for the drain
exitAllowed == drainCompleted

\* A signal is delivered: shutdown(signal) runs up to its await.
shutdownSignal(signal) ==
    /\ ~exited
    /\ modPollingInterval # 0 \/ hostLog # <<>>
    /\ Len(handlers) < MaxSignals
    /\ modTimers' = timersAfterStop(modPollingInterval, modTimers)
    /\ modPollingInterval' = 0
    /\ telegramPolling' = FALSE
    /\ LET q == queueShutdown([shuttingDown |-> shuttingDown, deadline |-> graceDeadline,
                               sessions |-> sessions], GRACE_PERIOD, clock)
       IN  /\ shuttingDown' = q.shuttingDown
           /\ graceDeadline' = q.deadline
           /\ sessions' = q.sessions
    /\ handlers' = Append(handlers, [signal |-> signal, pc |-> "awaitQueue", at |-> clock])
    /\ hostLog' = hostLog \o <<"stopIMessage", "stopTelegram", "queue.shutdown">>
    /\ UNCHANGED exited
    /\ UNCHANGED <<modLastProcessedRowId, jobs, ipcDecisions>>
    /\ UNCHANGED <<unseen, queueState, waitingGroups, activeIdleTimers, clock, lastInbound>>
    /\ UNCHANGED <<dbVars, channelVars, obsVars, hbVars, watchVars, envVars, optsVars, histVars>>

\* A session that was asked to drain terminates: its timers are cleared and
\* its entry is removed; the queue admits nothing while it shuts down.
sessionDrained(chatJid) ==
    /\ ~exited
    /\ \E x \in sessions : x.chat = chatJid /\ x.phase = "draining"
    /\ sessions' = sessions \ SessionsOf(chatJid)
    /\ queueState' = [queueState EXCEPT ![chatJid].active = FALSE]
    /\ activeIdleTimers' = [activeIdleTimers EXCEPT ![chatJid] = <<>>]
    /\ UNCHANGED <<unseen, waitingGroups, clock, lastInbound>>
    /\ UNCHANGED <<dbVars, channelVars, obsVars, modVars, hbVars, hostVars, watchVars, envVars, optsVars, histVars>>

\* Half of the grace period passes.
graceTick ==
    /\ ~exited
    /\ graceDeadline # <<>> => clock + GRACE_PERIOD \div 2 <= graceDeadline[1]
    /\ graceDeadline = <<>> => clock < GRACE_PERIOD \div 2
    /\ clock' = clock + GRACE_PERIOD \div 2
    /\ UNCHANGED <<unseen, sessions, queueState, waitingGroups, activeIdleTimers, lastInbound>>
    /\ UNCHANGED <<dbVars, channelVars, obsVars, modVars, hbVars, hostVars, watchVars, envVars, optsVars, histVars>>

\* The grace period is over: the sessions still alive are terminated.
gracePeriodEnds ==
    /\ ~exited
    /\ graceDeadline # <<>> /\ graceDeadline[1] <= clock
    /\ sessions # {}
    /\ sessions' = {}
    /\ queueState' = [c \in QueueChats |-> [queueState[c] EXCEPT !.active = FALSE]]
    /\ activeIdleTimers' = [c \in QueueChats |-> <<>>]
    /\ UNCHANGED <<unseen, waitingGroups, clock, lastInbound>>
    /\ UNCHANGED <<dbVars, channelVars, obsVars, modVars, hbVars, hostVars, watchVars, envVars, optsVars, histVars>>

\* shutdown(signal) resumes after `await queue.shutdown(10000)`:
\* process.exit(0).
shutdownResumes(h) ==
    /\ ~exited
    /\ h \in 1..Len(handlers)
    /\ handlers[h].pc = "awaitQueue"
    /\ exitAllowed
    /\ exited' = TRUE
    /\ handlers' = [handlers EXCEPT ![h].pc = "exit"]
    /\ hostLog' = Append(hostLog, "process.exit")
    /\ UNCHANGED <<telegramPolling, shuttingDown, graceDeadline>>
    /\ UNCHANGED <<dbVars, channelVars, obsVars, modVars, queueVars, hbVars, watchVars, envVars, optsVars, histVars>>

---------------------------------------------------------------------------
\* Heartbeat scheduler (src/src/heartbeat-scheduler.ts).

\* ---- isHeartbeatOk ----
\* A response is a sequence of pieces of text: the sentinel in upper and in
\* lower case (12 word characters each), a word character, a punctuation
\* mark, a blank, and a letter outside ASCII.
SentinelUpper == "HEARTBEAT_OK"
SentinelLower == "heartbeat_ok"
Sentinels == {SentinelUpper, SentinelLower}
WordPieces == Sentinels \cup {"x"}
BlankPieces == {" "}
PunctuationPieces == {","}
ForeignLetters == {"é"}
Pieces == WordPieces \cup BlankPieces \cup PunctuationPieces \cup ForeignLetters

\* String.prototype.length of a piece
pieceLength(t) == IF t \in Sentinels THEN 12 ELSE 1

RECURSIVE textLength(_)
\* String.prototype.length
textLength(s) == IF s = <<>> THEN 0 ELSE pieceLength(Head(s)) + textLength(Tail(s))

RECURSIVE trimStart(_)
trimStart(s) == IF s # <<>> /\ Head(s) \in BlankPieces THEN trimStart(Tail(s)) ELSE s

RECURSIVE trimEnd(_)
trimEnd(s) ==
    IF s # <<>> /\ s[Len(s)] \in BlankPieces THEN trimEnd(SubSeq(s, 1, Len(s) - 1)) ELSE s

\* String.prototype.trim
trim(s) == trimEnd(trimStart(s))

\* /\bHEARTBEAT_OK\b/i matches the piece at i: it is the sentinel in either
\* case, and neither neighbour is a word character (\w is [A-Za-z0-9_]).
sentinelAt(s, i) ==
    /\ s[i] \in Sentinels
    /\ (i = 1 \/ s[i - 1] \notin WordPieces)
    /\ (i = Len(s) \/ s[i + 1] \notin WordPieces)

RECURSIVE removeSentinels(_, _)
\* .replace(/\bHEARTBEAT_OK\b/gi, ''), from piece i on
removeSentinels(s, i) ==
    IF i > Len(s) THEN <<>>
    ELSE IF sentinelAt(s, i) THEN removeSentinels(s, i + 1)
    ELSE <<s[i]>> \o removeSentinels(s, i + 1)

keptByPunctuationFilter(t) == t \in WordPieces \cup BlankPieces
\* .replace(/[^\w\s]/g, ''): whatever is neither \w nor \s goes
removePunctuation(s) == SelectSeq(s, keptByPunctuationFilter)

\* isHeartbeatOk(message, maxChars)
isHeartbeatOk(message, maxChars) ==
    LET content        == trim(message)
        hasHeartbeatOk == \E i \in 1..Len(content) : sentinelAt(content, i)
        remaining      == trim(removePunctuation(removeSentinels(content, 1)))
    IN  hasHeartbeatOk /\ textLength(remaining) <= maxChars

\* The scheduler hands an agent's response to isHeartbeatOk.
checkResponse ==
    /\ hbVerdict = <<>>
    /\ hbVerdict' = <<isHeartbeatOk(hbInput.message, hbInput.maxChars)>>
    /\ UNCHANGED <<hbInput, hbConfigs, hbNow, hbReturned, tasks>>
    /\ UNCHANGED <<dbVars, channelVars, obsVars, modVars, queueVars, hostVars, watchVars, envVars, optsVars, histVars>>

\* ---- initializeHeartbeat ----
\* heartbeat-config.json of a group folder: `present` says the file exists,
\* `parses` that it is JSON, `enabled` that data.heartbeat is there and
\* enabled; `every` is text of the form <digits><unit>, activeHours and
\* prompt are there (a one-element sequence) or not (<<>>).
NoActiveHours == <<>>
NoPrompt == <<>>
DefaultPrompt == <<"Read HEARTBEAT.md and follow the instructions. If nothing needs attention, respond with HEARTBEAT_OK.">>
DefaultTimezone == "America/Los_Angeles"

\* Minutes by which local time is ahead of UTC (standard time), for the two
\* zones of the tz database that occur here.
tzOffsetMinutes(tz) == IF tz = "Asia/Kolkata" THEN 330 ELSE 0 - 480

\* loadHeartbeatConfig: null unless the file is there, parses and is enabled
loadHeartbeatConfig(groupFolder) ==
    IF /\ hbConfigs[groupFolder].present
       /\ hbConfigs[groupFolder].parses
       /\ hbConfigs[groupFolder].enabled
      THEN <<hbConfigs[groupFolder]>> ELSE <<>>

intervalParsesAnyUnit(every) == TRUE
\* parseInterval matches /^(\d+)([mh])$/
intervalParses(every) == every.unit \in {"m", "h"}

\* parseInterval: milliseconds
parseInterval(every) ==
    IF every.unit = "m" THEN every.value * 60 * 1000 ELSE every.value * 60 * 60 * 1000

\* generateHeartbeatCron does not throw (60 % 0 is NaN, which is not 0)
cronExpressible(intervalMs) ==
    LET minutes == intervalMs \div (60 * 1000)
    IN  minutes = 60 \/ (minutes < 60 /\ minutes # 0 /\ 60 % minutes = 0)

\* generateHeartbeatCron: '0 * * * *' or `*/${minutes} * * * *`
generateHeartbeatCron(intervalMs) ==
    LET minutes == intervalMs \div (60 * 1000)
    IN  IF minutes = 60 THEN [text |-> "0 * * * *", n |-> 0]
                        ELSE [text |-> "*/n * * * *", n |-> minutes]

\* `${end === 12 ? '12 PM' : end > 12 ? `${end - 12} PM` : `${end} AM`}`
endLabel(end) ==
    IF end = 12 THEN <<12, "PM">> ELSE IF end > 12 THEN <<end - 12, "PM">> ELSE <<end, "AM">>

\* wrapPromptWithActiveHoursCheck
wrapPromptWithActiveHoursCheck(config, basePrompt) ==
    IF config.activeHours = NoActiveHours THEN [hours |-> <<>>, base |-> basePrompt]
    ELSE LET ah == config.activeHours[1]
         IN  [hours |-> <<[timezone |-> ah.timezone, from |-> ah.start, to |-> ah.end,
                           fromLabel |-> <<ah.start, "AM">>, toLabel |-> endLabel(ah.end)]>>,
              base |-> basePrompt]

\* CronExpressionParser.parse(value, {tz}) of cron-parser throws when the
\* time zone is none the tz database has: the dates it computes in that zone
\* are invalid.
cronThrows(tz) == tz \notin {DefaultTimezone, "Asia/Kolkata"}

cronNextAtOrAfter(scheduleValue, tz, now) ==
    LET step == IF scheduleValue.n = 0 THEN 60 ELSE scheduleValue.n
        m    == (now + 60 * 1000 - 1) \div (60 * 1000)
        k    == m + ((step - ((m + tzOffsetMinutes(tz)) % step)) % step)
    IN  k * 60 * 1000
\* CronExpressionParser.parse(value, {tz}).next() for a time zone it takes
\* (for any other the call throws, see cronThrows): the first instant after
\* `now` with seconds 0 whose local minute fits the expression.
cronNext(scheduleValue, tz, now) ==
    LET step == IF scheduleValue.n = 0 THEN 60 ELSE scheduleValue.n
        m    == now \div (60 * 1000)
        k    == m + step - ((m + tzOffsetMinutes(tz)) % step)
    IN  k * 60 * 1000

nextRunInsideWindow(config, scheduleType, scheduleValue, intervalMs, now) ==
    LET tz   == IF config.activeHours # NoActiveHours THEN config.activeHours[1].timezone
                                                       ELSE DefaultTimezone
        from == IF config.activeHours # NoActiveHours THEN config.activeHours[1].start ELSE 0
    IN  IF scheduleType = "cron"
          THEN cronNext(scheduleValue, tz, now) + from * 60 * 60 * 1000
          ELSE now + intervalMs
\* `Calculate initial next_run time`
nextRun(config, scheduleType, scheduleValue, intervalMs, now) ==
    LET tz == IF config.activeHours # NoActiveHours THEN config.activeHours[1].timezone
                                                     ELSE DefaultTimezone
    IN  IF scheduleType = "cron" THEN cronNext(scheduleValue, tz, now)
                                 ELSE now + intervalMs

\* `heartbeat-${groupFolder}`
heartbeatTaskId(groupFolder) == <<"heartbeat", groupFolder>>

\* Variant: the lookup finds no task, as if the table were never consulted.
getTaskByIdNever(tbl, id) == FALSE

\* getTaskById
getTaskById(tbl, id) == id \in DOMAIN tbl

\* createTask: INSERT INTO scheduled_tasks
createTask(tbl, task) == [i \in DOMAIN tbl \cup {task.id} |-> IF i = task.id THEN task ELSE tbl[i]]

\* What initializeHeartbeat(groupFolder, chatJid, group) returns, and the
\* task table after it.  The next run is computed before the table is looked
\* at, inside the try whose catch returns false.
heartbeatInitialized(tbl, groupFolder, chatJid, now) ==
    LET loaded == loadHeartbeatConfig(groupFolder)
    IN  IF loaded = <<>> THEN [returned |-> FALSE, tasks |-> tbl]
        ELSE LET config == loaded[1]
             IN  IF ~intervalParses(config.every) THEN [returned |-> FALSE, tasks |-> tbl]
                 ELSE
                   LET intervalMs    == parseInterval(config.every)
                       basePrompt    == IF config.prompt # NoPrompt THEN config.prompt
                                                                    ELSE DefaultPrompt
                       prompt        == wrapPromptWithActiveHoursCheck(config, basePrompt)
                       scheduleType  == IF cronExpressible(intervalMs) THEN "cron" ELSE "interval"
                       scheduleValue == IF cronExpressible(intervalMs)
                                          THEN generateHeartbeatCron(intervalMs)
                                          ELSE [text |-> "ms", n |-> intervalMs]
                       taskId        == heartbeatTaskId(groupFolder)
                       tz            == IF config.activeHours # NoActiveHours
                                          THEN config.activeHours[1].timezone
                                          ELSE DefaultTimezone
                       next          == nextRun(config, scheduleType, scheduleValue,
                                                intervalMs, now)
                   IN  IF scheduleType = "cron" /\ cronThrows(tz)
                         THEN [returned |-> FALSE, tasks |-> tbl]
                       ELSE IF getTaskById(tbl, taskId) THEN [returned |-> TRUE, tasks |-> tbl]
                       ELSE [returned |-> TRUE,
                             tasks |-> createTask(tbl,
                                [id |-> taskId, group_folder |-> groupFolder,
                                 chat_jid |-> chatJid, prompt |-> prompt,
                                 schedule_type |-> scheduleType,
                                 schedule_value |-> scheduleValue,
                                 context_mode |-> "group", model |-> "haiku",
                                 next_run |-> next, status |-> "active",
                                 created_at |-> now])]

\* initializeHeartbeat(group.folder, jid, group) for one registered group
initializeHeartbeat(jid) ==
    /\ jid \in DOMAIN registeredGroups
    /\ LET folder == registeredGroups[jid].folder
           res    == heartbeatInitialized(tasks, folder, jid, hbNow)
       IN  /\ tasks' = res.tasks
           /\ hbReturned' = [hbReturned EXCEPT ![folder] = <<res.returned>>]
    /\ UNCHANGED <<hbInput, hbVerdict, hbConfigs, hbNow>>
    /\ UNCHANGED <<dbVars, channelVars, obsVars, modVars, queueVars, hostVars, watchVars, envVars, optsVars, histVars>>

\* Object.entries(registeredGroups): the chats in the order of insertion. The
\* order is not part of the state here, so every order is possible.
entriesOrders(groups) ==
    { order \in [1..Cardinality(DOMAIN groups) -> DOMAIN groups] :
        \A j \in DOMAIN groups : \E i \in DOMAIN order : order[i] = j }

RECURSIVE initializeEach(_, _)
\* for (const [jid, group] of Object.entries(registeredGroups)), over the
\* chats not yet visited
initializeEach(st, todo) ==
    IF todo = <<>> THEN st
    ELSE LET jid    == Head(todo)
             folder == registeredGroups[jid].folder
             res    == heartbeatInitialized(st.tasks, folder, jid, hbNow)
         IN  initializeEach([tasks |-> res.tasks,
                             returned |-> [st.returned EXCEPT ![folder] = <<res.returned>>]],
                            Tail(todo))

\* initializeAllHeartbeats(registeredGroups)
initializeAllHeartbeats ==
    /\ \E order \in entriesOrders(registeredGroups) :
         LET st == initializeEach([tasks |-> tasks, returned |-> hbReturned], order)
         IN  /\ tasks' = st.tasks
             /\ hbReturned' = st.returned
    /\ UNCHANGED <<hbInput, hbVerdict, hbConfigs, hbNow>>
    /\ UNCHANGED <<dbVars, channelVars, obsVars, modVars, queueVars, hostVars, watchVars, envVars, optsVars, histVars>>

MaxRestartMinutes == 1  \* minutes that pass between the start-ups of the host

\* Environment: heartbeat-config.json of a group is written, edited or removed
\* between two start-ups of the host.
writeHeartbeatConfig(groupFolder, config) ==
    /\ hbConfigs' = [hbConfigs EXCEPT ![groupFolder] = config]
    /\ UNCHANGED <<hbInput, hbVerdict, hbNow, hbReturned, tasks>>
    /\ UNCHANGED <<dbVars, channelVars, obsVars, modVars, queueVars, hostVars, watchVars, envVars, optsVars, histVars>>

\* Environment: a minute passes before the host starts again.
minutePasses ==
    /\ hbNow < MaxRestartMinutes * 60 * 1000
    /\ hbNow' = hbNow + 60 * 1000
    /\ UNCHANGED <<hbInput, hbVerdict, hbConfigs, hbReturned, tasks>>
    /\ UNCHANGED <<dbVars, channelVars, obsVars, modVars, queueVars, hostVars, watchVars, envVars, optsVars, histVars>>

---------------------------------------------------------------------------
\* ---- File watchers: CollaborationWatcher (host) and FileWatcher (container) ----
\* Text is a sequence of characters; the name of an inotify event counts as one
\* character.
MaxNameLen == 4         \* characters of a file name
MaxStemLen == 2         \* characters in front of ".tmp" in the longer names
MaxEvents == 1          \* 'change' events emitted in one run

NameChars == {"a", ".", "~", "|", "t", "m", "p"}
TMP_SUFFIX == <<".", "t", "m", "p">>
WATCH_DIR == <<"/", "d", "/">>          \* %w: the watched directory, with its slash
InotifyEvents == {"CREATE", "MOVED_TO"}
UNDEFINED == <<"undefined">>

Texts(chars, n) == UNION { [1..k -> chars] : k \in 0..n }

\* The names a file in the watched directory can have ('/' cannot be part of one).
FileNames ==
    (Texts(NameChars, MaxNameLen) \ {<<>>})
        \cup { stem \o TMP_SUFFIX : stem \in Texts(NameChars, MaxStemLen) }

startsWith(s, prefix) ==
    Len(s) >= Len(prefix) /\ SubSeq(s, 1, Len(prefix)) = prefix

endsWith(s, suffix) ==
    Len(s) >= Len(suffix) /\ SubSeq(s, Len(s) - Len(suffix) + 1, Len(s)) = suffix

\* String.prototype.split(sep): the pieces between the separators.
RECURSIVE split(_, _)
split(s, sep) ==
    IF \E i \in 1..Len(s) : s[i] = sep
      THEN LET i == CHOOSE k \in 1..Len(s) :
                        s[k] = sep /\ \A j \in 1..(k - 1) : s[j] # sep
           IN  <<SubSeq(s, 1, i - 1)>> \o split(SubSeq(s, i + 1, Len(s)), sep)
      ELSE <<s>>

\* const [filepath, event] = line.split('|')
lineFilepath(line) == split(line, "|")[1]
lineEvent(line) ==
    LET parts == split(line, "|")
    IN  IF Len(parts) >= 2 THEN parts[2] ELSE UNDEFINED

\* path.basename(p): what follows the last '/', trailing slashes put aside.
RECURSIVE withoutTrailingSlashes(_)
withoutTrailingSlashes(p) ==
    IF Len(p) > 0 /\ p[Len(p)] = "/"
      THEN withoutTrailingSlashes(SubSeq(p, 1, Len(p) - 1))
      ELSE p

basename(p) ==
    LET parts == split(withoutTrailingSlashes(p), "/")
    IN  parts[Len(parts)]

\* filepath.split('/').pop() || ''
lastSegment(p) ==
    LET parts == split(p, "/")
    IN  parts[Len(parts)]

\* "Skip temporary and hidden files"
skipped(filename) ==
    \/ startsWith(filename, <<".">>)
    \/ endsWith(filename, <<"~">>)
    \/ endsWith(filename, TMP_SUFFIX)

\* What the tools write for a change of `file` in the watched directory:
\* fswatch the full path, inotifywait '%w%f|%e'.
fswatchOutput(file) == WATCH_DIR \o file
inotifywaitOutput(file, event) == WATCH_DIR \o file \o <<"|", event>>

\* this.emit('change', {path, event}); `file` records the file the line was about.
emitChange(watcher, path, event, file) ==
    changeEvents' = changeEvents \cup
        { [watcher |-> watcher, path |-> path, event |-> event, file |-> file] }

\* CollaborationWatcher.startFswatch: rl.on('line', ...)
fswatchLine(file) ==
    /\ Cardinality(changeEvents) < MaxEvents
    /\ LET filepath == fswatchOutput(file)
       IN  IF filepath = <<>> \/ skipped(basename(filepath))
             THEN UNCHANGED changeEvents
             ELSE emitChange("collaboration-fswatch", filepath, <<"modified">>, file)
    /\ UNCHANGED <<dbVars, channelVars, obsVars, modVars, queueVars, hbVars,
                   hostVars, histVars, envVars, optsVars>>

\* CollaborationWatcher.startInotifywait: rl.on('line', ...)
inotifywaitLine(file, event) ==
    /\ Cardinality(changeEvents) < MaxEvents
    /\ LET line == inotifywaitOutput(file, event)
           filepath == lineFilepath(line)
       IN  IF filepath = <<>> \/ skipped(basename(filepath))
             THEN UNCHANGED changeEvents
             ELSE emitChange("collaboration-inotifywait", filepath, lineEvent(line), file)
    /\ UNCHANGED <<dbVars, channelVars, obsVars, modVars, queueVars, hbVars,
                   hostVars, histVars, envVars, optsVars>>

\* FileWatcher.start: rl.on('line', ...)
fileWatcherLine(file, event) ==
    /\ Cardinality(changeEvents) < MaxEvents
    /\ LET line == inotifywaitOutput(file, event)
           filepath == lineFilepath(line)
       IN  IF filepath = <<>> \/ skipped(lastSegment(filepath))
             THEN UNCHANGED changeEvents
             ELSE emitChange("file-watcher", filepath, lineEvent(line), file)
    /\ UNCHANGED <<dbVars, channelVars, obsVars, modVars, queueVars, hbVars,
                   hostVars, histVars, envVars, optsVars>>

---------------------------------------------------------------------------
MainGroup == [name |-> <<"m">>, folder |-> MAIN_GROUP_FOLDER,
              requiresTrigger |-> TRUE, additionalMounts |-> FALSE]

InitDb ==
    /\ messageDb = <<>>
    /\ pendingApprovals = <<>>
    /\ blockedContacts = {}
    /\ registeredGroups = (MainJid :> MainGroup)
    /\ storedMessages = {}
    /\ chatMetadata = {}

InitChannel ==
    /\ lastProcessedRowId = 0
    /\ connected = FALSE
    /\ pollingInterval = 0
    /\ timers = {}
    /\ polls = [p \in PollIds |-> IdlePoll]
    /\ ops = [o \in OpIds |-> IdleOp]

InitObs ==
    /\ forwarded = <<>>
    /\ approvalRequests = [j \in ChatJids |-> 0]
    /\ pendingAdds = [j \in ChatJids |-> 0]
    /\ ignoredBlocked = {}

InitMod ==
    /\ modLastProcessedRowId = 0
    /\ modPollingInterval = 0
    /\ modTimers = {}
    /\ jobs = {}
    /\ ipcDecisions = {}

InitQueue ==
    /\ unseen = [c \in QueueChats |-> <<>>]
    /\ sessions = {}
    /\ queueState = [c \in QueueChats |-> [active |-> FALSE, pendingMessages |-> FALSE]]
    /\ waitingGroups = <<>>
    /\ activeIdleTimers = [c \in QueueChats |-> <<>>]
    /\ clock = 0
    /\ lastInbound = <<>>

InitHb ==
    /\ hbInput = [message |-> <<>>, maxChars |-> 0]
    /\ hbVerdict = <<>>
    /\ hbConfigs = <<>>
    /\ hbNow = 0
    /\ hbReturned = <<>>
    /\ tasks = <<>>

---------------------------------------------------------------------------
\* ---- Configuration (config.ts): the cap on concurrent containers ----
\* The value of the environment variable is a sequence of characters, or
\* UNDEFINED when the variable is not set.
MaxEnvLen == 4          \* characters of the environment variable's value

EnvChars == {"-", "0", "1", "2", ".", "a", " "}
EnvValues == {UNDEFINED} \cup Texts(EnvChars, MaxEnvLen)

WhiteSpaceChars == {" "}
DecimalDigits == <<"0", "1", "2", "3", "4", "5", "6", "7", "8", "9">>
isDigit(c) == \E i \in 1..Len(DecimalDigits) : DecimalDigits[i] = c
digitValue(c) == (CHOOSE i \in 1..Len(DecimalDigits) : DecimalDigits[i] = c) - 1

RECURSIVE skipWhiteSpace(_)
skipWhiteSpace(str) ==
    IF str # <<>> /\ Head(str) \in WhiteSpaceChars THEN skipWhiteSpace(Tail(str)) ELSE str

\* The longest prefix of `str` made of decimal digits.
RECURSIVE digitsPrefix(_)
digitsPrefix(str) ==
    IF str # <<>> /\ isDigit(Head(str)) THEN <<Head(str)>> \o digitsPrefix(Tail(str)) ELSE <<>>

\* The number a sequence of decimal digits denotes.
RECURSIVE digitsValue(_)
digitsValue(ds) ==
    IF ds = <<>> THEN 0 ELSE 10 * digitsValue(SubSeq(ds, 1, Len(ds) - 1)) + digitValue(ds[Len(ds)])

\* parseInt(str, 10): leading white space is skipped, then an optional sign,
\* then the longest run of digits; what follows is ignored. <<>> stands for
\* NaN, <<n>> for the number n (-0 is 0: both are falsy).
parseInt(str) ==
    LET s1     == skipWhiteSpace(str)
        signed == s1 # <<>> /\ Head(s1) \in {"+", "-"}
        sign   == IF s1 # <<>> /\ Head(s1) = "-" THEN -1 ELSE 1
        ds     == digitsPrefix(IF signed THEN Tail(s1) ELSE s1)
    IN  IF ds = <<>> THEN <<>> ELSE <<sign * digitsValue(ds)>>

\* Variant: the parsed number is used as it is, without Math.max(1, ...).
maxConcurrentContainersUnclamped(env) ==
    LET text   == IF env = UNDEFINED \/ env = <<>> THEN <<"5">> ELSE env
        parsed == parseInt(text)
    IN  IF parsed = <<>> \/ parsed[1] = 0 THEN 5 ELSE parsed[1]

\* Math.max(1, parseInt(process.env.MAX_CONCURRENT_CONTAINERS || '5', 10) || 5)
maxConcurrentContainers(env) ==
    LET text   == IF env = UNDEFINED \/ env = <<>> THEN <<"5">> ELSE env
        parsed == parseInt(text)
        number == IF parsed = <<>> \/ parsed[1] = 0 THEN 5 ELSE parsed[1]
    IN  IF number > 1 THEN number ELSE 1

\* config.ts is loaded: the constant is computed, once.
loadConfig ==
    /\ maxConcurrent = <<>>
    /\ maxConcurrent' = <<maxConcurrentContainers(processEnv)>>
    /\ UNCHANGED processEnv
    /\ UNCHANGED <<dbVars, channelVars, obsVars, modVars, queueVars, hbVars, hostVars,
                   watchVars, histVars, optsVars>>

InitHost ==
    /\ handlers = <<>>
    /\ telegramPolling = FALSE
    /\ shuttingDown = FALSE
    /\ graceDeadline = <<>>
    /\ exited = FALSE
    /\ hostLog = <<>>

InitWatch == changeEvents = {}

InitHist ==
    /\ rowsAtConnect = 0
    /\ completedRows = {}
    /\ modRowsAtConnect = 0

\* The variable is not set in the environment; config.ts is not loaded yet.
InitEnv ==
    /\ processEnv = UNDEFINED
    /\ maxConcurrent = <<>>

\* The channel is constructed with the onApprovalRequest callback.
InitOpts == opts = [onApprovalRequest |-> TRUE]

\* The channel is constructed with or without the optional callback.
InitAnyOpts == opts \in [onApprovalRequest : BOOLEAN]

InitParts == InitHost /\ InitWatch /\ InitHist /\ InitEnv

InitRest == InitParts /\ InitOpts

\* The host with the IMessageChannel, freshly constructed.
Init ==
    /\ InitDb /\ InitChannel /\ InitObs /\ InitMod /\ InitQueue /\ InitHb /\ InitParts
    /\ InitAnyOpts

Next ==
    \/ \E c \in ContactIds, fromMe \in BOOLEAN : Arrive(c, fromMe, "hi")
    \/ connect
    \/ disconnect
    \/ \E t \in TimerIds : pollMessages(t, NoFault)
    \/ \E p \in PollIds : pollResume(p, NoFault)
    \/ \E p \in PollIds, ok \in BOOLEAN : approvalRequestSettles(p, ok)
    \/ \E j \in ChatJids : approveCall(j)
    \/ \E o \in OpIds, t \in Times : approveFolder(o, t)
    \/ \E o \in OpIds : approveRegister(o)
    \* the host replies to a registered chat
    \/ \E j \in {normalizeChatGuid(<<"a", ".", "b">>)} :
          j \in DOMAIN registeredGroups /\ sendMessage(j)
    \/ \E o \in OpIds, ok \in BOOLEAN, t \in Times : sendMessageSettles(o, ok, t)
    \/ \E j \in ChatJids : denyCall(j)
    \/ \E o \in OpIds : denyBlock(o)

Spec == Init /\ [][Next]_vars

\* The host with the module-level integration and the IPC watcher, where
\* chat.db can be read at start-up.
InitIpc == Init /\ opts.onApprovalRequest

\* The task files a session writes: only approve carries useMainAgent, and
\* the list tasks carry no chatJid.
TaskFile(type, data) ==
    /\ type # "approve_imessage_contact" => ~data.useMainAgent
    /\ type \in {"list_pending_imessage_approvals", "list_blocked_imessage_contacts"}
         => data.chatJid = NoJid

JobRecords == [kind : {"approve_imessage_contact", "deny_imessage_contact"},
               chatJid : ChatJids, useMainAgent : BOOLEAN]

NextIpc ==
    \/ \E c \in ContactIds, fromMe \in BOOLEAN, text \in {"", "hi"} :
          (fromMe => text = "hi") /\ Arrive(c, fromMe, text)
    \* main() calls connectIMessage() once, at start-up
    \/ modTimers = {} /\ connectIMessage(TRUE)
    \/ stopIMessage
    \/ \E t \in TimerIds, ts \in Times : pollMessagesMod(t, ts)
    \/ \E ty \in IpcTypes, isMain \in BOOLEAN, d \in Payloads :
          TaskFile(ty, d) /\ processTaskIpc(ty, isMain, d)
    \/ \E job \in JobRecords, ts \in Times : runApprove(job, ts)
    \/ \E job \in JobRecords : runDeny(job)

SpecIpc == InitIpc /\ [][NextIpc]_vars

\* ---- The response check of the heartbeat: isHeartbeatOk on one response ----
MaxMessageLen == 3      \* pieces of text in a response
MaxThreshold == 2       \* maxChars is one of 0..MaxThreshold or the default
DefaultMaxChars == 300

Messages == UNION { [1..n -> Pieces] : n \in 0..MaxMessageLen }
Thresholds == 0..MaxThreshold \cup {DefaultMaxChars}

InitSuppress ==
    /\ InitDb /\ InitChannel /\ InitObs /\ InitMod /\ InitQueue /\ InitRest
    /\ hbInput \in [message : Messages, maxChars : Thresholds]
    /\ hbVerdict = <<>>
    /\ hbConfigs = <<>>
    /\ hbNow = 0
    /\ hbReturned = <<>>
    /\ tasks = <<>>

NextSuppress == checkResponse

SpecSuppress == InitSuppress /\ [][NextSuppress]_vars

\* ---- Start-up of the heartbeats: two registered groups with their configs ----
HbFolders == {MAIN_GROUP_FOLDER, "family"}

Everys == { [value |-> 30, unit |-> "m"], [value |-> 60, unit |-> "m"],
            [value |-> 1, unit |-> "h"], [value |-> 45, unit |-> "m"],
            [value |-> 0, unit |-> "m"], [value |-> 5, unit |-> "d"],
            [value |-> 15, unit |-> "m"], [value |-> 20, unit |-> "m"] }
ActiveHours == [start : {8, 9}, end : {11, 12, 22},
                timezone : {DefaultTimezone, "Asia/Kolkata"}]
HbConfigs ==
    { [present |-> FALSE, parses |-> FALSE, enabled |-> FALSE,
       every |-> [value |-> 60, unit |-> "m"],
       activeHours |-> NoActiveHours, prompt |-> NoPrompt],
      [present |-> TRUE, parses |-> FALSE, enabled |-> FALSE,
       every |-> [value |-> 60, unit |-> "m"],
       activeHours |-> NoActiveHours, prompt |-> NoPrompt],
      [present |-> TRUE, parses |-> TRUE, enabled |-> FALSE,
       every |-> [value |-> 60, unit |-> "m"],
       activeHours |-> NoActiveHours, prompt |-> NoPrompt] }
    \cup [present : {TRUE}, parses : {TRUE}, enabled : {TRUE}, every : Everys,
          activeHours : {NoActiveHours} \cup { <<ah>> : ah \in ActiveHours },
          prompt : {NoPrompt}]

\* Date.now() at start-up: on a minute, inside a minute, around the half hour.
MaxStartMinute == 1
StartTimes == { m * 60 * 1000 + ms : m \in {0, 29, 30} \cup (58..58 + MaxStartMinute),
                                      ms \in {0, 1} }

InitHeartbeat ==
    /\ messageDb = <<>>
    /\ pendingApprovals = <<>>
    /\ blockedContacts = {}
    /\ registeredGroups = (MainJid :> MainGroup) @@ (FamilyJid :> FamilyGroup)
    /\ storedMessages = {}
    /\ chatMetadata = {}
    /\ InitChannel /\ InitObs /\ InitMod /\ InitQueue /\ InitRest
    /\ hbInput = [message |-> <<>>, maxChars |-> 0]
    /\ hbVerdict = <<>>
    /\ hbConfigs \in [HbFolders -> HbConfigs]
    /\ hbNow \in StartTimes
    /\ hbReturned = [f \in HbFolders |-> <<>>]
    /\ tasks = <<>>

NextHeartbeat ==
    \/ \E jid \in {MainJid, FamilyJid} : initializeHeartbeat(jid)
    \/ initializeAllHeartbeats

SpecHeartbeat == InitHeartbeat /\ [][NextHeartbeat]_vars

\* ---- The host with two registered chats and the queue ----
\* config.ts was loaded with the variable not set, or set to 1 or to 2.
QueueEnvs == {UNDEFINED, <<"1">>, <<"2">>}

InitLoaded ==
    /\ processEnv \in QueueEnvs
    /\ maxConcurrent = <<maxConcurrentContainers(processEnv)>>

InitDelivery ==
    /\ messageDb = <<>>
    /\ pendingApprovals = <<>>
    /\ blockedContacts = {}
    /\ registeredGroups = (MainJid :> MainGroup) @@ (FamilyJid :> FamilyGroup)
    /\ storedMessages = {}
    /\ chatMetadata = {}
    /\ InitChannel /\ InitObs /\ InitMod /\ InitQueue /\ InitHb
    /\ InitHost /\ InitWatch /\ InitHist /\ InitOpts /\ InitLoaded

NextDelivery ==
    \/ \E c \in QueueChats, hasTrigger \in BOOLEAN, listed \in BOOLEAN, writeOk \in BOOLEAN :
          onMessage(c, hasTrigger, listed, writeOk)
    \/ \E c \in QueueChats : sessionRuns(c)
    \/ \E c \in QueueChats : sessionOutput(c)
    \/ \E c \in QueueChats : idleTimeout(c)
    \/ \E c \in QueueChats : sessionExits(c)
    \/ tick

SpecDelivery == InitDelivery /\ [][NextDelivery]_vars

\* ---- The running host receives SIGTERM / SIGINT ----
\* The live sessions when main() has started: of no chat, of one or of both,
\* starting or running, as many as MAX_CONCURRENT_CONTAINERS allows.
InitShutdown ==
    /\ messageDb = <<>>
    /\ pendingApprovals = <<>>
    /\ blockedContacts = {}
    /\ registeredGroups = (MainJid :> MainGroup) @@ (FamilyJid :> FamilyGroup)
    /\ storedMessages = {}
    /\ chatMetadata = {}
    /\ InitChannel /\ InitObs /\ InitMod /\ InitHb
    /\ InitHost /\ InitWatch /\ InitHist /\ InitOpts /\ InitLoaded
    /\ unseen = [c \in QueueChats |-> <<>>]
    /\ waitingGroups = <<>>
    /\ clock = 0
    /\ lastInbound = <<>>
    /\ \E live \in SUBSET QueueChats, phase \in {"starting", "running"} :
         /\ Cardinality(live) <= MAX_CONCURRENT_CONTAINERS
         /\ sessions = { [chat |-> c, slot |-> IF c = MainJid THEN 1 ELSE Cardinality(live),
                          phase |-> phase] : c \in live }
         /\ queueState = [c \in QueueChats |->
                            [active |-> c \in live, pendingMessages |-> FALSE]]
         /\ activeIdleTimers = [c \in QueueChats |->
                                  IF c \in live /\ phase = "running"
                                    THEN <<IDLE_TIMEOUT>> ELSE <<>>]

NextShutdown ==
    \/ \E c \in ContactIds, fromMe \in BOOLEAN : Arrive(c, fromMe, "hi")
    \/ \E dbOk \in BOOLEAN : hostLog = <<>> /\ modTimers = {} /\ connectIMessage(dbOk)
    \/ hostLog = <<>> /\ connectTelegram
    \/ \E t \in TimerIds, ts \in Times : ~exited /\ pollMessagesMod(t, ts)
    \/ \E signal \in Signals : shutdownSignal(signal)
    \/ \E c \in QueueChats : sessionDrained(c)
    \/ graceTick
    \/ gracePeriodEnds
    \/ \E h \in 1..MaxSignals : shutdownResumes(h)

SpecShutdown == InitShutdown /\ [][NextShutdown]_vars

\* ---- The file watchers read the lines of fswatch / inotifywait ----
InitWatchers == Init /\ opts.onApprovalRequest

NextWatchers ==
    \/ \E file \in FileNames : fswatchLine(file)
    \/ \E file \in FileNames, event \in InotifyEvents : inotifywaitLine(file, event)
    \/ \E file \in FileNames, event \in InotifyEvents : fileWatcherLine(file, event)

SpecWatchers == InitWatchers /\ [][NextWatchers]_vars

\* ---- One connected IMessageChannel and the messages of one contact ----
MaxPollRows == 3        \* rows the contact writes

PollContact == <<"a", ".", "b">>

InitPoll == Init

NextPoll ==
    \/ ArriveUpTo(MaxPollRows, PollContact, FALSE, "hi")
    \/ pollingInterval = 0 /\ connect
    \/ \E t \in TimerIds, fault \in Faults \cup {NoFault} : pollMessages(t, fault)
    \/ \E p \in PollIds, fault \in Faults \cup {NoFault} : pollResume(p, fault)
    \/ \E p \in PollIds : pollCatches(p)
    \/ \E p \in PollIds, ok \in BOOLEAN : approvalRequestSettles(p, ok)
    \/ approveCall(normalizeChatGuid(PollContact))
    \/ \E o \in OpIds, t \in Times : approveFolder(o, t)
    \/ \E o \in OpIds : approveRegister(o)
    \/ \E j \in ChatJids : j \in DOMAIN registeredGroups /\ sendMessage(j)
    \/ \E o \in OpIds, ok \in BOOLEAN, t \in Times : sendMessageSettles(o, ok, t)

SpecPoll == InitPoll /\ [][NextPoll]_vars

\* ---- The host starts again: a contact approved by an earlier run, and ----
\* ---- rows written to chat.db while no host was running ----
InitRestart ==
    /\ messageDb = <<>>
    /\ pendingApprovals = <<>>
    /\ blockedContacts = {}
    /\ registeredGroups =
         (MainJid :> MainGroup)
           @@ (normalizeChatGuid(PollContact) :>
                 [name |-> PollContact, folder |-> moduleFolder(PollContact, 0),
                  requiresTrigger |-> FALSE, additionalMounts |-> FALSE])
    /\ storedMessages = {}
    /\ chatMetadata = {}
    /\ InitChannel /\ InitObs /\ InitMod /\ InitQueue /\ InitHb /\ InitParts
    /\ InitAnyOpts

NextRestart ==
    \/ \E c \in ContactIds, fromMe \in BOOLEAN : Arrive(c, fromMe, "hi")
    \/ \E dbOk \in BOOLEAN : connectIMessage(dbOk)
    \/ \E t \in TimerIds, ts \in Times : pollMessagesMod(t, ts)
    \/ pollingInterval = 0 /\ connect
    \/ \E t \in TimerIds : pollMessages(t, NoFault)
    \/ \E p \in PollIds : pollResume(p, NoFault)
    \/ \E p \in PollIds, ok \in BOOLEAN : approvalRequestSettles(p, ok)

SpecRestart == InitRestart /\ [][NextRestart]_vars

\* ---- Contacts are approved and denied: the calls of the channel module ----
\* ---- and the tasks of the main group handled by the integration module, ----
\* ---- which also polls chat.db ----
InitContacts == Init /\ opts.onApprovalRequest

NextContacts ==
    \/ \E c \in ContactIds : Arrive(c, FALSE, "hi")
    \* main() calls connectIMessage() once, at start-up
    \/ modTimers = {} /\ connectIMessage(TRUE)
    \/ \E t \in TimerIds, ts \in Times : pollMessagesMod(t, ts)
    \/ \E j \in ChatJids : approveCall(j)
    \/ \E o \in OpIds, t \in Times : approveFolder(o, t)
    \/ \E o \in OpIds : approveRegister(o)
    \/ \E j \in ChatJids : j \in DOMAIN registeredGroups /\ sendMessage(j)
    \/ \E o \in OpIds, ok \in BOOLEAN, t \in Times : sendMessageSettles(o, ok, t)
    \/ \E j \in ChatJids : denyCall(j)
    \/ \E o \in OpIds : denyBlock(o)
    \/ \E ty \in {"approve_imessage_contact", "deny_imessage_contact"}, d \in Payloads :
          /\ d.groupFolder = MAIN_GROUP_FOLDER
          /\ TaskFile(ty, d)
          /\ processTaskIpc(ty, TRUE, d)
    \/ \E job \in JobRecords, ts \in Times : runApprove(job, ts)
    \/ \E job \in JobRecords : runDeny(job)

SpecContacts == InitContacts /\ [][NextContacts]_vars

\* ---- The host starts again and again: the heartbeats are initialised at ----
\* ---- each start-up, for three chats of which two share the main folder ----
SharedFolderJid == normalizeChatGuid(PollContact)

\* The configs a group may have at a start-up: missing, disabled, or enabled
\* with an interval that does not parse (5d), that is no cron step (45m) or
\* that is one (30m); with active hours in a time zone that the tz database
\* has or has not, or without active hours.
UnknownTimezone == "Mars/Olympus_Mons"

RestartConfigs ==
    { c \in HbConfigs : ~c.present \/ (c.parses /\ ~c.enabled) }
    \cup { [present |-> TRUE, parses |-> TRUE, enabled |-> TRUE, every |-> e[1],
            activeHours |-> IF e[2] = "" THEN NoActiveHours
                            ELSE <<[start |-> 8, end |-> 22, timezone |-> e[2]]>>,
            prompt |-> NoPrompt] :
           e \in { <<[value |-> 5, unit |-> "d"], "">>,
                   <<[value |-> 45, unit |-> "m"], "">>,
                   <<[value |-> 45, unit |-> "m"], UnknownTimezone>>,
                   <<[value |-> 30, unit |-> "m"], "">>,
                   <<[value |-> 30, unit |-> "m"], "Asia/Kolkata">>,
                   <<[value |-> 30, unit |-> "m"], UnknownTimezone>> } }

InitReinit ==
    /\ messageDb = <<>>
    /\ pendingApprovals = <<>>
    /\ blockedContacts = {}
    /\ registeredGroups =
         (MainJid :> MainGroup) @@ (FamilyJid :> FamilyGroup)
           @@ (SharedFolderJid :>
                 [name |-> PollContact, folder |-> MAIN_GROUP_FOLDER,
                  requiresTrigger |-> FALSE, additionalMounts |-> FALSE])
    /\ storedMessages = {}
    /\ chatMetadata = {}
    /\ InitChannel /\ InitObs /\ InitMod /\ InitQueue /\ InitRest
    /\ hbInput = [message |-> <<>>, maxChars |-> 0]
    /\ hbVerdict = <<>>
    /\ hbConfigs \in [HbFolders -> RestartConfigs]
    /\ hbNow = 0
    /\ hbReturned = [f \in HbFolders |-> <<>>]
    /\ tasks = <<>>

NextReinit ==
    \/ \E jid \in {MainJid, FamilyJid, SharedFolderJid} : initializeHeartbeat(jid)
    \/ initializeAllHeartbeats
    \/ \E f \in HbFolders, c \in RestartConfigs : writeHeartbeatConfig(f, c)
    \/ minutePasses

SpecReinit == InitReinit /\ [][NextReinit]_vars

\* ---- The host is started with any value of the environment variable ----
InitConfig ==
    /\ InitDb /\ InitChannel /\ InitObs /\ InitMod /\ InitQueue /\ InitHb
    /\ InitHost /\ InitWatch /\ InitHist /\ InitOpts
    /\ processEnv \in EnvValues
    /\ maxConcurrent = <<>>

NextConfig == loadConfig

SpecConfig == InitConfig /\ [][NextConfig]_vars

---------------------------------------------------------------------------
\* Observations used by the properties.
rowJid(r) == normalizeChatGuid(messageDb[r].chat_identifier)

ForwardedRows(j) == { i \in 1..Len(forwarded) : forwarded[i].chat_jid = j }

StoredInbound(j) == { m \in storedMessages : m.chat_jid = j /\ ~m.is_from_me }

\* C1: a contact-management task (approve, deny, list pending, list blocked)
\* from a session that is not the main one starts nothing and leaves the
\* group registry, the pending approvals and the blocked contacts as they are.
C1_NonMainRejected ==
    [][ (\E ty \in IpcTypes, d \in Payloads : TaskFile(ty, d) /\ processTaskIpc(ty, FALSE, d))
          => UNCHANGED <<registeredGroups, pendingApprovals, blockedContacts, jobs>> ]_vars

\* C1 witness: an approve task of a non-main session was rejected while a
\* contact was pending, and the contact is still pending and not registered.
C1_Witness ==
    /\ \E e \in ipcDecisions :
         e.type = "approve_imessage_contact" /\ ~e.isMain /\ ~e.authorized
    /\ jobs = {}
    /\ \E j \in DOMAIN pendingApprovals :
         j \notin DOMAIN registeredGroups /\ j \notin blockedContacts

\* C2: two tasks of the same type from sessions with the same isMain get the
\* same authorization decision whatever their payloads say, and the decision
\* is isMain.
C2_AuthorizationByIsMainOnly ==
    \A e1, e2 \in ipcDecisions :
      /\ e1.authorized = e1.isMain
      /\ (e1.type = e2.type /\ e1.isMain = e2.isMain) => e1.authorized = e2.authorized

\* C2 witness: a non-main session sent the same task type with a payload that
\* names the main folder and with one that does not; both were decided.
C2_Witness ==
    \E e1, e2 \in ipcDecisions :
      /\ ~e1.isMain /\ ~e2.isMain
      /\ e1.type = e2.type
      /\ e1.groupFolder = MAIN_GROUP_FOLDER
      /\ e2.groupFolder # MAIN_GROUP_FOLDER

\* C3: every onMessage call and every inbound message stored by the channel
\* is for a row that is not from the host, whose chat was not blocked and was
\* registered when the row was processed; the channel stores exactly the rows
\* it forwards, and no chat that is not registered has a forwarded message.
C3_ForwardOnlyRegistered ==
    /\ \A i \in 1..Len(forwarded) :
         /\ ~forwarded[i].is_from_me
         /\ ~messageDb[forwarded[i].row].is_from_me
         /\ ~forwarded[i].blocked
         /\ forwarded[i].registered
         /\ forwarded[i].chat_jid \in DOMAIN registeredGroups
         /\ forwarded[i].chat_jid = rowJid(forwarded[i].row)
    /\ { m.id : m \in { n \in storedMessages : n.by = "channel" /\ ~n.is_from_me } }
         = { <<"row", forwarded[i].row>> : i \in 1..Len(forwarded) }

\* C3 witness: a message was forwarded while another contact, whose message
\* was processed too, is still waiting for approval and has nothing forwarded.
C3_Witness ==
    /\ Len(forwarded) > 0
    /\ \E j \in ChatJids :
         /\ pendingAdds[j] > 0
         /\ j \notin DOMAIN registeredGroups
         /\ ForwardedRows(j) = {}

\* C4: once a contact is blocked it stays blocked, and no step forwards or
\* stores a message of it, adds a pending approval for it or requests an
\* approval for it.
C4_BlockedStaysIgnored ==
    [][ \A j \in ChatJids :
          j \in blockedContacts =>
            /\ j \in blockedContacts'
            /\ ForwardedRows(j)' = ForwardedRows(j)
            /\ StoredInbound(j)' = StoredInbound(j)
            /\ pendingAdds'[j] = pendingAdds[j]
            /\ approvalRequests'[j] = approvalRequests[j]
            /\ (j \in DOMAIN pendingApprovals' => j \in DOMAIN pendingApprovals) ]_vars

\* C4 witness: a contact is blocked and a row of it was met by a poll after
\* the denial and ignored.
C4_Witness ==
    \E r \in ignoredBlocked : rowJid(r) \in blockedContacts

\* C5: a contact with a pending approval has had exactly one pending record
\* created and, by a channel that was given the onApprovalRequest callback,
\* exactly one approval request made (none by a channel without it), however
\* many of its messages were processed and however the polls interleave; and
\* a contact whose message was processed is pending unless it is registered
\* or blocked.
C5_OneApprovalRequest ==
    \A j \in ChatJids :
      /\ j \in DOMAIN pendingApprovals => pendingAdds[j] = 1
      /\ approvalRequests[j] = IF opts.onApprovalRequest THEN pendingAdds[j] ELSE 0
      /\ (j \in chatMetadata /\ j \notin DOMAIN registeredGroups /\ j \notin blockedContacts)
            => j \in DOMAIN pendingApprovals

\* C5 witness: one poll waits in onApprovalRequest for a contact's first
\* message while a second poll has gone past a message of the same contact.
C5_Witness ==
    \E p, q \in PollIds :
      /\ polls[p].pc = "awaitApproval"
      /\ polls[q].pc = "ready"
      /\ rowJid(polls[p].rows[polls[p].idx]) = rowJid(polls[q].rows[polls[q].idx])
      /\ pendingAdds[rowJid(polls[p].rows[polls[p].idx])] = 1

\* C6: isHeartbeatOk(message, threshold) is true exactly when the message
\* contains the sentinel and what remains after removing every sentinel
\* occurrence and all punctuation, trimmed, is at most threshold long; the
\* sentinel is read as a whole word in either letter case.
C6_SuppressedExactlyWhenMinimal ==
    hbVerdict # <<>> =>
      LET content          == trim(hbInput.message)
          notPunctuation(t) == t \notin PunctuationPieces
          contains         == \E i \in 1..Len(content) : sentinelAt(content, i)
          rest             == trim(SelectSeq(removeSentinels(content, 1), notPunctuation))
      IN  hbVerdict[1] = (contains /\ textLength(rest) <= hbInput.maxChars)

\* The schedule-relevant part of a heartbeat config: its interval and the
\* timezone its cron is read in.
effectiveTimezone(config) ==
    IF config.activeHours = NoActiveHours THEN DefaultTimezone
                                          ELSE config.activeHours[1].timezone

\* C7: two heartbeat configs that differ only in the start and end of
\* activeHours (or in having such a window at all, in the same timezone) get
\* tasks with the same schedule kind, schedule value and next_run, both
\* active; the prompts differ exactly when the windows differ.
C7_ActiveHoursContentOnly ==
    \A f1, f2 \in HbFolders :
      LET c1 == hbConfigs[f1]
          c2 == hbConfigs[f2]
          i1 == heartbeatTaskId(f1)
          i2 == heartbeatTaskId(f2)
      IN  ( /\ i1 \in DOMAIN tasks /\ i2 \in DOMAIN tasks
            /\ c1.every = c2.every
            /\ c1.prompt = c2.prompt
            /\ effectiveTimezone(c1) = effectiveTimezone(c2) )
          => /\ tasks[i1].schedule_type = tasks[i2].schedule_type
             /\ tasks[i1].schedule_value = tasks[i2].schedule_value
             /\ tasks[i1].next_run = tasks[i2].next_run
             /\ tasks[i1].status = "active" /\ tasks[i2].status = "active"
             /\ tasks[i1].context_mode = tasks[i2].context_mode
             /\ tasks[i1].model = tasks[i2].model
             /\ (tasks[i1].prompt = tasks[i2].prompt) <=> (c1.activeHours = c2.activeHours)

\* C7 witness: two groups have cron heartbeat tasks from configs that differ
\* in the start and in the end of activeHours and in nothing else.
C7_Witness ==
    LET c1 == hbConfigs[MAIN_GROUP_FOLDER]
        c2 == hbConfigs["family"]
    IN  /\ heartbeatTaskId(MAIN_GROUP_FOLDER) \in DOMAIN tasks
        /\ heartbeatTaskId("family") \in DOMAIN tasks
        /\ tasks[heartbeatTaskId("family")].schedule_type = "cron"
        /\ c1.activeHours # NoActiveHours /\ c2.activeHours # NoActiveHours
        /\ c1.every = c2.every
        /\ c1.activeHours[1].timezone = c2.activeHours[1].timezone
        /\ c1.activeHours[1].start # c2.activeHours[1].start
        /\ c1.activeHours[1].end # c2.activeHours[1].end

\* C8 as stated: on an inbound message of a registered chat that has a
\* running session, queue.sendMessage is tried; enqueueMessageCheck is called
\* only when the delivery did not succeed or no session is live; never both.
C8_SendMessageTriedFirst ==
    lastInbound # <<>> =>
      LET e == lastInbound[1]
      IN  /\ e.chat \in DOMAIN registeredGroups
          /\ e.live => e.sendCalled
          /\ e.enqueued => (~e.delivered \/ ~e.live)
          /\ ~(e.enqueued /\ e.delivered)

\* C8: on an inbound message of a registered chat, queue.sendMessage is tried
\* exactly when getMessagesSince lists a message after the cursor and the
\* group is the main one, needs no trigger, or a listed message carries the
\* trigger; the delivery succeeds exactly when it is tried, the chat has a
\* running session and the write succeeds; and enqueueMessageCheck is called
\* exactly when the delivery did not succeed (never both).
C8_DeliverFirstElseEnqueue ==
    lastInbound # <<>> =>
      LET e == lastInbound[1]
          g == registeredGroups[e.chat]
      IN  /\ e.chat \in DOMAIN registeredGroups
          /\ e.sendCalled <=>
                /\ e.missed > 0
                /\ g.folder = MAIN_GROUP_FOLDER \/ ~g.requiresTrigger \/ e.trigger
          /\ e.delivered <=> (e.sendCalled /\ e.live /\ e.written)
          /\ e.enqueued <=> ~e.delivered
          /\ ~(e.enqueued /\ e.delivered)

\* C8 witness: the last inbound message was delivered into the running
\* session of its chat and nothing was enqueued, while the other chat, whose
\* message found no session to deliver to, waits in the queue.
C8_Witness ==
    /\ lastInbound # <<>>
    /\ lastInbound[1].delivered /\ lastInbound[1].sendCalled /\ ~lastInbound[1].enqueued
    /\ runningSession(lastInbound[1].chat)
    /\ \E c \in QueueChats : c # lastInbound[1].chat /\ queueState[c].pendingMessages

\* C9: an onMessage call whose delivery into the running session succeeds
\* re-arms the idle timer of that chat for a full idle window from now and
\* touches no other timer; a call whose delivery fails changes no timer; and
\* an idle timer never fires before its deadline.
C9_DeliveryResetsIdleTimer ==
    [][ /\ \A c \in QueueChats, hasTrigger \in BOOLEAN, listed \in BOOLEAN,
              writeOk \in BOOLEAN :
             onMessage(c, hasTrigger, listed, writeOk) =>
               IF lastInbound'[1].delivered
                 THEN /\ activeIdleTimers'[c] = <<clock + IDLE_TIMEOUT>>
                      /\ \A d \in QueueChats \ {c} : activeIdleTimers'[d] = activeIdleTimers[d]
                      /\ SessionsOf(c)' = SessionsOf(c)
                 ELSE activeIdleTimers' = activeIdleTimers
        /\ \A c \in QueueChats :
             (idleTimeout(c) /\ activeIdleTimers[c] # <<>>)
                => activeIdleTimers[c][1] <= clock ]_vars

\* C9 witness: a delivery succeeded after time had passed since the session
\* started, and the timer of the chat now runs a full idle window from then.
C9_Witness ==
    /\ lastInbound # <<>>
    /\ lastInbound[1].delivered
    /\ clock > 0
    /\ activeIdleTimers[lastInbound[1].chat] = <<clock + IDLE_TIMEOUT>>
    /\ runningSession(lastInbound[1].chat)

\* C10: at any instant a group has at most one live session, starting or
\* running, whatever the cap on live sessions is; the group's active flag
\* says whether it has one; and no more sessions are live than the cap allows.
C10_OneSessionPerGroup ==
    /\ \A c \in QueueChats : Cardinality(SessionsOf(c)) <= 1
    /\ \A c \in QueueChats : queueState[c].active <=> SessionsOf(c) # {}
    /\ Cardinality(sessions) <= MAX_CONCURRENT_CONTAINERS

\* C10 witness: fewer sessions are live than the cap allows, and a chat with a
\* live session has further messages, which could not be delivered and are
\* noted as pending in the queue without a second session for it.
C10_Witness ==
    \E c \in QueueChats :
      /\ Cardinality(sessions) < MAX_CONCURRENT_CONTAINERS
      /\ Cardinality(SessionsOf(c)) = 1
      /\ queueState[c].pendingMessages
      /\ Len(unseen[c]) = MaxUnseen
      /\ lastInbound # <<>> /\ lastInbound[1].chat = c /\ lastInbound[1].enqueued
      /\ lastInbound[1].live


\* What the module's intake writes.
moduleIntake == <<modLastProcessedRowId, pendingApprovals, storedMessages, chatMetadata,
                  approvalRequests, pendingAdds>>

exitsLogged == { i \in 1..Len(hostLog) : hostLog[i] = "process.exit" }

\* C11: once a shutdown signal is handled, iMessage and Telegram polling are
\* stopped before the queue is asked to drain, nothing is taken in from the
\* channels and no session is started from then on, the drain ends with the
\* grace period at the latest, and the process exits only after the drain has
\* completed (no session is live).
C11_StopIntakeDrainThenExit ==
    /\ [](shuttingDown => (modTimers = {} /\ modPollingInterval = 0 /\ ~telegramPolling))
    /\ [](\A i \in 1..Len(hostLog) :
            hostLog[i] = "queue.shutdown" =>
              /\ i >= 3
              /\ hostLog[i - 2] = "stopIMessage"
              /\ hostLog[i - 1] = "stopTelegram")
    /\ []((shuttingDown /\ sessions # {}) =>
            (graceDeadline # <<>> /\ clock <= graceDeadline[1]))
    /\ [](exited =>
            /\ sessions = {}
            /\ shuttingDown
            /\ \E i, j \in 1..Len(hostLog) :
                 i < j /\ hostLog[i] = "queue.shutdown" /\ hostLog[j] = "process.exit")
    /\ [][ shuttingDown =>
             /\ moduleIntake' = moduleIntake
             /\ sessions' \subseteq sessions
             /\ shuttingDown' ]_vars

\* C11 witness: the host exited after a session that did not drain in time
\* was terminated at the end of the grace period, and a row written after the
\* signal was never polled.
C11_Witness ==
    /\ exited
    /\ Len(handlers) = 1
    /\ clock = handlers[1].at + GRACE_PERIOD
    /\ Len(messageDb) > modLastProcessedRowId
    /\ modLastProcessedRowId > 0

\* C12: a second signal, while the first is being handled, changes nothing
\* but the record of the handlers: polling stays stopped, the drain that the
\* first signal requested goes on with its grace period, no session is
\* touched, and the process exits once, after which nothing happens.
C12_SecondSignalNoExtraEffect ==
    /\ [][ ((\E signal \in Signals : shutdownSignal(signal)) /\ handlers # <<>>) =>
             /\ UNCHANGED <<modVars, queueVars, dbVars, obsVars>>
             /\ UNCHANGED <<telegramPolling, shuttingDown, graceDeadline, exited>> ]_vars
    /\ [](shuttingDown => graceDeadline = <<handlers[1].at + GRACE_PERIOD>>)
    /\ [](Cardinality(exitsLogged) <= 1)
    /\ [](Cardinality({ h \in 1..Len(handlers) : handlers[h].pc = "exit" }) <= 1)
    /\ [][ exited => UNCHANGED <<modVars, queueVars, hostVars, obsVars, storedMessages,
                                 pendingApprovals, registeredGroups>> ]_vars

\* C12 witness: a second signal came while the sessions were draining, some
\* time after the first, and the host has exited from one of the two handlers.
C12_Witness ==
    /\ Len(handlers) = 2
    /\ handlers[2].at > handlers[1].at
    /\ exited
    /\ \E h \in 1..2 : handlers[h].pc = "awaitQueue"
    /\ clock = graceDeadline[1]


\* A heartbeat config that initializeHeartbeat cannot use: the file is
\* missing or is not JSON, the heartbeat is disabled, or `every` is not
\* digits followed by m or h.
configError(c) == ~c.present \/ ~c.parses \/ ~c.enabled \/ c.every.unit \notin {"m", "h"}

\* C13: a group whose heartbeat config is missing, unparsable, disabled or
\* has a malformed `every` gets false from initializeHeartbeat and no task,
\* whatever the configs of the other groups are; a group whose config is in
\* order gets true and its task; and one run of initializeAllHeartbeats
\* visits every registered group and leaves each group with a usable config
\* with its task.
C13_ConfigErrorDisablesOneGroup ==
    /\ [](\A f \in HbFolders :
            hbReturned[f] # <<>> =>
              IF configError(hbConfigs[f])
                THEN hbReturned[f] = <<FALSE>> /\ heartbeatTaskId(f) \notin DOMAIN tasks
                ELSE hbReturned[f] = <<TRUE>> /\ heartbeatTaskId(f) \in DOMAIN tasks)
    /\ [][ initializeAllHeartbeats =>
             \A f \in HbFolders :
               /\ hbReturned'[f] # <<>>
               /\ ~configError(hbConfigs[f]) => heartbeatTaskId(f) \in DOMAIN tasks' ]_vars

\* C13 witness: the main group's config has a malformed `every`, it got false
\* and no task, and the other group, visited too, has its task.
C13_Witness ==
    /\ hbConfigs[MAIN_GROUP_FOLDER].enabled
    /\ hbConfigs[MAIN_GROUP_FOLDER].every.unit = "d"
    /\ hbReturned[MAIN_GROUP_FOLDER] = <<FALSE>>
    /\ hbReturned["family"] = <<TRUE>>
    /\ DOMAIN tasks = {heartbeatTaskId("family")}

\* The cron tasks with an expression */N * * * *.
everyNTasks == { i \in DOMAIN tasks :
                   tasks[i].schedule_type = "cron" /\ tasks[i].schedule_value.n > 0 }

\* next is the earliest instant after now, on a full minute, whose minute of
\* the hour in a zone `offset` minutes ahead of UTC is a multiple of n.
earliestMinuteMultiple(next, now, n, offset) ==
    LET minuteFits(k) == ((k + offset) % 60) % n = 0
    IN  /\ next > now
        /\ next % (60 * 1000) = 0
        /\ minuteFits(next \div (60 * 1000))
        /\ \A k \in (now \div (60 * 1000))..(next \div (60 * 1000)) :
             (k * 60 * 1000 > now /\ k * 60 * 1000 < next) => ~minuteFits(k)

\* C14 as stated, with the minute read in UTC as in its example: the
\* next_run of a */N task is the earliest instant after the current time, on
\* a full minute, whose UTC minute is a multiple of N.
C14_NextRunUtcMinute ==
    \A i \in everyNTasks :
      earliestMinuteMultiple(tasks[i].next_run, tasks[i].created_at,
                             tasks[i].schedule_value.n, 0)

\* C14, amended: the next_run of a */N task is the earliest instant strictly
\* after the current time, with seconds zero, whose minute in the timezone
\* the expression is evaluated in (activeHours.timezone, else
\* America/Los_Angeles) is a multiple of N.
C14_NextRunZoneMinute ==
    \A i \in everyNTasks :
      earliestMinuteMultiple(tasks[i].next_run, tasks[i].created_at,
                             tasks[i].schedule_value.n,
                             tzOffsetMinutes(effectiveTimezone(hbConfigs[tasks[i].group_folder])))

\* C14 witness: a */20 heartbeat evaluated in Asia/Kolkata exactly on a full
\* hour UTC, and a */15 heartbeat in the default zone evaluated inside a
\* minute, both with their next_run.
C14_Witness ==
    /\ hbNow % (60 * 60 * 1000) \in {0, 1}
    /\ \E i, j \in everyNTasks :
         /\ tasks[i].schedule_value.n = 20
         /\ effectiveTimezone(hbConfigs[tasks[i].group_folder]) = "Asia/Kolkata"
         /\ tasks[i].next_run = (tasks[i].created_at \div (60 * 1000) + 10) * 60 * 1000
         /\ tasks[j].schedule_value.n = 15
         /\ effectiveTimezone(hbConfigs[tasks[j].group_folder]) = DefaultTimezone
         /\ tasks[j].next_run = (tasks[j].created_at \div (60 * 1000) + 15) * 60 * 1000

\* C15: no 'change' event is emitted for a file whose name starts with '.',
\* ends with '~' or ends with '.tmp'.
temporaryName(file) ==
    \/ file[1] = "."
    \/ file[Len(file)] = "~"
    \/ Len(file) >= 4 /\ SubSeq(file, Len(file) - 3, Len(file)) = <<".", "t", "m", "p">>

C15_NoEventForTemporaryName ==
    \A e \in changeEvents : ~temporaryName(e.file)

\* C16: the rows of one chat reach onMessage in ascending ROWID order: when a
\* row is forwarded, every lower row of the chat that is forwarded at all has
\* been forwarded before.
C16_ForwardedInRowOrder ==
    \A j \in DOMAIN forwarded : \A i \in DOMAIN forwarded :
        (forwarded[i].chat_jid = forwarded[j].chat_jid
            /\ forwarded[i].row < forwarded[j].row)
          => \E k \in 1..(j - 1) : forwarded[k].row = forwarded[i].row

\* C17: no row is forwarded to onMessage twice.
C17_ForwardedAtMostOnce ==
    \A i \in DOMAIN forwarded : \A j \in DOMAIN forwarded :
        forwarded[i].row = forwarded[j].row => i = j

\* C18: no step lowers IMessageChannel.lastProcessedRowId.
C18_CursorNeverDecreases ==
    [][lastProcessedRowId' >= lastProcessedRowId]_vars

\* The step in which the catch of pollMessages ends poll p: a call of
\* processMessage threw, or the promise it awaited was rejected.
pollFails(p) == polls[p].pc \in {"awaitApproval", "threw"} /\ polls'[p].pc = "free"
failedRow(p) == polls[p].rows[polls[p].idx]

\* No later row of the poll is processed: nothing is stored, forwarded,
\* requested or completed by the step, and the poll is over.
pollStops ==
    /\ storedMessages' = storedMessages
    /\ pendingApprovals' = pendingApprovals
    /\ chatMetadata' = chatMetadata
    /\ obsVars' = obsVars
    /\ completedRows' = completedRows

\* C19: when processing a row throws, the cursor is not advanced, the poll
\* processes no later row, and the failed row is above the cursor, so that
\* the next poll reads it again.
C19_FailedRowReadAgain ==
    [][\A p \in PollIds : pollFails(p) =>
          /\ lastProcessedRowId' = lastProcessedRowId
          /\ pollStops
          /\ failedRow(p) > lastProcessedRowId']_vars

\* The rows the channel class has forwarded or stored are above the maximum
\* ROWID that connect() found.
channelRowsAfterConnect ==
    /\ \A i \in DOMAIN forwarded : forwarded[i].row > rowsAtConnect
    /\ \A msg \in storedMessages :
         (msg.by = "channel" /\ msg.id[1] = "row") => msg.id[2] > rowsAtConnect

\* The rows the module-level integration has stored are above the maximum
\* ROWID present when connectIMessage() ran.
moduleRowsAfterConnect ==
    \A msg \in storedMessages :
        (msg.by = "module" /\ msg.id[1] = "row") => msg.id[2] > modRowsAtConnect

\* C20: no row that was in chat.db when the host connected is forwarded or
\* stored afterwards.
C20_OnlyRowsAfterConnect == channelRowsAfterConnect /\ moduleRowsAfterConnect

\* C21: at most one polling timer of the channel is armed, and while the
\* channel is disconnected no polling timer is armed.
C21_AtMostOneTimer ==
    /\ Cardinality(timers) <= 1
    /\ ~connected => timers = {}

\* C22: onMessage and onApprovalRequest are invoked only while the channel is
\* connected: no step taken after disconnect() calls either of them.
C22_NoCallbackAfterDisconnect ==
    [][(forwarded' # forwarded \/ approvalRequests' # approvalRequests)
          => connected]_vars

\* An approve or deny call of the channel module is in progress for the chat.
opInProgress(j) == \E o \in OpIds : ops[o].pc \notin {"free", "send"} /\ ops[o].chat = j

\* What the registry and the blocked set hold for the chat is left as it is.
contactUnchanged(j) ==
    /\ (j \in DOMAIN registeredGroups') = (j \in DOMAIN registeredGroups)
    /\ j \in DOMAIN registeredGroups => registeredGroups'[j] = registeredGroups[j]
    /\ (j \in blockedContacts') = (j \in blockedContacts)

\* C23: without a pending approval for the chat no approve or deny (called
\* then, or a second one after the first has finished) changes its
\* registration or blocks it; with one, approve registers the chat and removes
\* the pending record, deny blocks the chat and removes the pending record.
\* The calls of the channel module start only with a pending record.
C23_PendingApprovalRequired ==
    [][/\ \A j \in ChatJids :
            (j \notin DOMAIN pendingApprovals /\ ~opInProgress(j))
              => contactUnchanged(j)
       /\ \A o \in OpIds :
            /\ (ops[o].pc = "free" /\ ops'[o].pc \notin {"free", "send"})
                 => ops'[o].chat \in DOMAIN pendingApprovals
            /\ (ops[o].pc = "approve_import_config" /\ ops'[o].pc # "approve_import_config")
                 => /\ ops[o].chat \in DOMAIN registeredGroups'
                    /\ ops[o].chat \notin DOMAIN pendingApprovals'
            /\ (ops[o].pc = "deny_import_db" /\ ops'[o].pc # "deny_import_db")
                 => /\ ops[o].chat \in blockedContacts'
                    /\ ops[o].chat \notin DOMAIN pendingApprovals'
       /\ \A job \in jobs \ jobs' :
            job.chatJid \in DOMAIN pendingApprovals
              => /\ job.chatJid \notin DOMAIN pendingApprovals'
                 /\ IF job.kind = "approve_imessage_contact"
                      THEN job.chatJid \in DOMAIN registeredGroups'
                      ELSE job.chatJid \in blockedContacts']_vars

\* One contact has been approved and the other denied, a task of the main
\* group among the calls; neither has a pending record any more, so that a
\* second approve or deny of either one finds none.
C23_Witness ==
    /\ pendingApprovals = <<>>
    /\ jobs = {}
    /\ \A o \in OpIds : ops[o].pc = "free"
    /\ \E j \in ChatJids, k \in ChatJids :
         /\ j # k
         /\ j \in DOMAIN registeredGroups /\ j \notin blockedContacts
         /\ k \in blockedContacts /\ k \notin DOMAIN registeredGroups
    /\ \E e \in ipcDecisions : e.authorized

\* The sets a chat id is in: pending approval, registered, blocked.
contactSets(j) ==
    (IF j \in DOMAIN pendingApprovals THEN {"pending"} ELSE {})
      \cup (IF j \in DOMAIN registeredGroups THEN {"registered"} ELSE {})
      \cup (IF j \in blockedContacts THEN {"blocked"} ELSE {})

\* C24: while no approve or deny is in progress, a chat id is in at most one
\* of the sets pending approval, registered and blocked.
C24_AtMostOneContactState ==
    (\A o \in OpIds : ops[o].pc = "free")
      => \A j \in ChatJids : Cardinality(contactSets(j)) <= 1

\* An outgoing message is stored for the chat.
outgoingStored(stored, j) ==
    \E msg \in stored : msg.id[1] = "outgoing" /\ msg.chat_jid = j

\* The step in which approveIMessageContact of call o rejects because
\* sendMessage threw: the call ends and no welcome message is stored.
approveRejects(o) ==
    /\ ops[o].pc = "approve_send"
    /\ ops'[o].pc = "free"
    /\ ~outgoingStored(storedMessages', ops[o].chat)

\* C25: when approveIMessageContact rejects, the chat is not registered and
\* its pending approval is still present.
C25_ApproveAllOrNothing ==
    [][\A o \in OpIds : approveRejects(o) =>
          /\ ops[o].chat \notin DOMAIN registeredGroups'
          /\ ops[o].chat \in DOMAIN pendingApprovals']_vars

\* The chats registered as isolated agents of iMessage contacts, and those
\* registered with the main agent.
isolatedContacts ==
    { j \in ChatJids \cap DOMAIN registeredGroups :
        registeredGroups[j].folder # MAIN_GROUP_FOLDER }
mainAgentContacts ==
    { j \in ChatJids \cap DOMAIN registeredGroups :
        registeredGroups[j].folder = MAIN_GROUP_FOLDER }

\* C26: two different contacts registered as isolated agents have different
\* folders; a contact approved with useMainAgent has the main group folder
\* and no additional mounts.
C26_IsolatedFoldersDiffer ==
    /\ \A j \in isolatedContacts : \A k \in isolatedContacts :
         j # k => registeredGroups[j].folder # registeredGroups[k].folder
    /\ \A j \in mainAgentContacts : ~registeredGroups[j].additionalMounts

\* C27: a failed send stores nothing and a successful one stores the outgoing
\* message of the chat; an outgoing message is stored only by the step in
\* which a send to its chat ends.
C27_OutgoingStoredOnSuccessOnly ==
    /\ [](\A j \in ChatJids, ts \in Times :
            /\ storeOutgoing(storedMessages, j, FALSE, ts) = storedMessages
            /\ storeOutgoing(storedMessages, j, TRUE, ts)
                 = storedMessages \cup {[id |-> <<"outgoing", ts>>, chat_jid |-> j,
                                         is_from_me |-> TRUE, by |-> "channel"]})
    /\ [][\A msg \in storedMessages' \ storedMessages :
            msg.id[1] = "outgoing" =>
              \E o \in OpIds : /\ ops[o].pc \in {"approve_send", "send"}
                               /\ ops[o].chat = msg.chat_jid
                               /\ ops'[o].pc = "free"]_vars

\* A send to one contact has succeeded (its message is stored) and the send
\* to another, registered by the channel module as well, has failed: the
\* call is over and no outgoing message is stored for it.
C27_Witness ==
    \E j \in ChatJids, k \in ChatJids :
        /\ \E msg \in storedMessages : msg.id[1] = "outgoing" /\ msg.chat_jid = j
        /\ k \in DOMAIN registeredGroups
        /\ registeredGroups[k].folder # MAIN_GROUP_FOLDER
        /\ ~registeredGroups[k].additionalMounts
        /\ \A o \in OpIds : ops[o].pc = "free"
        /\ ~\E msg \in storedMessages : msg.id[1] = "outgoing" /\ msg.chat_jid = k

\* Each heartbeat task of the table belongs to the folder its id names, so
\* that a group folder has at most one.
oneHeartbeatPerFolder ==
    \A id \in DOMAIN tasks : \A id2 \in DOMAIN tasks :
        /\ id = <<"heartbeat", tasks[id].group_folder>>
        /\ tasks[id].group_folder = tasks[id2].group_folder => id = id2

\* The step is a call of initializeHeartbeat for folder f, alone or within
\* initializeAllHeartbeats.
initializedIn(f) ==
    \/ \E jid \in DOMAIN registeredGroups :
          registeredGroups[jid].folder = f /\ initializeHeartbeat(jid)
    \/ initializeAllHeartbeats

\* C28 as stated: once the task heartbeat-<folder> exists, no step changes
\* it, and every call for the folder returns true; a group folder has at most
\* one heartbeat task.
C28_ExistingTaskKeptReturnsTrue ==
    /\ [][\A f \in HbFolders :
            <<"heartbeat", f>> \in DOMAIN tasks =>
              /\ <<"heartbeat", f>> \in DOMAIN tasks'
              /\ tasks'[<<"heartbeat", f>>] = tasks[<<"heartbeat", f>>]
              /\ initializedIn(f) => hbReturned'[f] = <<TRUE>>]_vars
    /\ []oneHeartbeatPerFolder

\* The call returns true for this config: the file is there, parses and is
\* enabled, `every` is digits followed by m or h, and, when the interval is a
\* cron step, the time zone of the active hours is one cron-parser takes.
returnsTrueFor(c) ==
    /\ ~configError(c)
    /\ \/ (c.every.unit = "m" /\ (c.every.value >= 60 \/ c.every.value = 0
                                                       \/ 60 % c.every.value # 0)
                                /\ c.every.value # 60)
       \/ (c.every.unit = "h" /\ c.every.value # 1)
       \/ c.activeHours = NoActiveHours
       \/ c.activeHours[1].timezone \in {DefaultTimezone, "Asia/Kolkata"}

\* C28, amended: once the task heartbeat-<folder> exists, no step changes it;
\* every call for the folder returns true when the group's config is still
\* usable and false when it is not (removed, disabled, with a bad interval, or
\* with a cron interval in a time zone cron-parser rejects); a group folder
\* has at most one heartbeat task, whichever of the chats that share the
\* folder is initialised.
C28_ExistingTaskKept ==
    /\ [][\A f \in HbFolders :
            <<"heartbeat", f>> \in DOMAIN tasks =>
              /\ <<"heartbeat", f>> \in DOMAIN tasks'
              /\ tasks'[<<"heartbeat", f>>] = tasks[<<"heartbeat", f>>]
              /\ initializedIn(f) => hbReturned'[f] = <<returnsTrueFor(hbConfigs[f])>>]_vars
    /\ []oneHeartbeatPerFolder

\* The task of the main folder was created at an earlier start-up, for one of
\* the two chats that share the folder; the config has changed since, time
\* has passed, and a later call for the folder has returned true; the task of
\* the other folder is kept although its config now names a time zone with
\* which the call returns false.
C28_Witness ==
    /\ <<"heartbeat", MAIN_GROUP_FOLDER>> \in DOMAIN tasks
    /\ tasks[<<"heartbeat", MAIN_GROUP_FOLDER>>].chat_jid = SharedFolderJid
    /\ tasks[<<"heartbeat", MAIN_GROUP_FOLDER>>].created_at < hbNow
    /\ tasks[<<"heartbeat", MAIN_GROUP_FOLDER>>].schedule_type = "cron"
    /\ hbConfigs[MAIN_GROUP_FOLDER].every.value = 45
    /\ hbConfigs[MAIN_GROUP_FOLDER].enabled
    /\ hbReturned[MAIN_GROUP_FOLDER] = <<TRUE>>
    /\ <<"heartbeat", "family">> \in DOMAIN tasks
    /\ hbConfigs["family"].enabled
    /\ hbConfigs["family"].every.value = 30
    /\ hbConfigs["family"].activeHours # NoActiveHours
    /\ hbConfigs["family"].activeHours[1].timezone = UnknownTimezone
    /\ hbReturned["family"] = <<FALSE>>

\* The kind of number a text denotes when read as a whole (Number(text)):
\* white space around it, an optional sign, digits with an optional fraction.
trimmedEnv(str) ==
    LET s1 == skipWhiteSpace(str)
        n  == CHOOSE k \in 0..Len(s1) :
                 /\ \A i \in (k + 1)..Len(s1) : s1[i] \in WhiteSpaceChars
                 /\ (k = 0 \/ s1[k] \notin WhiteSpaceChars)
    IN  SubSeq(s1, 1, n)
unsignedEnv(str) ==
    LET t == trimmedEnv(str)
    IN  IF t # <<>> /\ Head(t) \in {"+", "-"} THEN Tail(t) ELSE t
wholeDigits(str) == digitsPrefix(unsignedEnv(str))
fractionOf(str) == SubSeq(unsignedEnv(str), Len(wholeDigits(str)) + 1, Len(unsignedEnv(str)))
fractionDigits(str) == IF fractionOf(str) = <<>> THEN <<>> ELSE Tail(fractionOf(str))
isNumber(str) ==
    /\ str # UNDEFINED
    /\ \/ trimmedEnv(str) = <<>>
       \/ /\ fractionOf(str) = <<>> \/ Head(fractionOf(str)) = "."
          /\ \A i \in 1..Len(fractionDigits(str)) : isDigit(fractionDigits(str)[i])
          /\ wholeDigits(str) # <<>> \/ fractionDigits(str) # <<>>
isZero(str) ==
    /\ isNumber(str)
    /\ digitsValue(wholeDigits(str)) = 0
    /\ digitsValue(fractionDigits(str)) = 0
isNegative(str) == isNumber(str) /\ ~isZero(str) /\ Head(trimmedEnv(str)) = "-"
isPositive(str) == isNumber(str) /\ ~isZero(str) /\ Head(trimmedEnv(str)) # "-"

\* C29 as stated: the cap is at least 1, and it is 5 when the variable is
\* unset, not a number or 0, 1 when it is a negative number, and the number
\* itself when it is a positive number.
C29_CapByKindOfNumber ==
    maxConcurrent # <<>> =>
      /\ maxConcurrent[1] \in Nat /\ maxConcurrent[1] >= 1
      /\ (~isNumber(processEnv) \/ isZero(processEnv)) => maxConcurrent[1] = 5
      /\ isNegative(processEnv) => maxConcurrent[1] = 1
      /\ isPositive(processEnv) =>
           /\ digitsValue(fractionDigits(processEnv)) = 0
           /\ maxConcurrent[1] = digitsValue(wholeDigits(processEnv))

\* C29, amended: the cap is an integer of at least 1 for every value of the
\* variable; it follows the integer the value starts with (white space, an
\* optional sign, digits up to the first other character): 5 when the variable
\* is unset or starts with no integer or with 0, 1 when that integer is
\* negative, the integer itself when it is positive. For a value that is an
\* integer as a whole this is what the claim says.
C29_CapAtLeastOne ==
    maxConcurrent # <<>> =>
      /\ maxConcurrent[1] \in Nat /\ maxConcurrent[1] >= 1
      /\ processEnv = UNDEFINED => maxConcurrent[1] = 5
      /\ processEnv # UNDEFINED =>
           LET leading == parseInt(processEnv)
           IN  /\ (leading = <<>> \/ leading = <<0>>) => maxConcurrent[1] = 5
               /\ (leading # <<>> /\ leading[1] < 0) => maxConcurrent[1] = 1
               /\ (leading # <<>> /\ leading[1] > 0) => maxConcurrent[1] = leading[1]
      /\ (isNumber(processEnv) /\ fractionOf(processEnv) = <<>>) =>
           /\ isZero(processEnv) => maxConcurrent[1] = 5
           /\ isNegative(processEnv) => maxConcurrent[1] = 1
           /\ isPositive(processEnv) => maxConcurrent[1] = digitsValue(wholeDigits(processEnv))

\* config.ts was loaded with the variable set to "-0.2", a negative number
\* whose leading integer is -0: the cap is 5.
C29_Witness ==
    /\ processEnv = <<"-", "0", ".", "2">>
    /\ isNegative(processEnv)
    /\ maxConcurrent = <<5>>

=============================================================================
